---- MODULE Spec2Model ----
(***************************************************************************)
(* Tado Hijack: the debounced command pipeline (TadoApiManager), the      *)
(* coordinator operations that feed it, the poll cycle and the quota      *)
(* aware interval scheduler (TadoDataUpdateCoordinator).                  *)
(*                                                                         *)
(* Everything runs on one asyncio event loop: an action of this module is *)
(* the code a callback or coroutine runs between two awaits.              *)
(***************************************************************************)
EXTENDS Integers, Sequences, FiniteSets, TLC

(***************************************************************************)
(* Bounds of the model.                                                    *)
(***************************************************************************)
\* caller operations (queue_command calls) in one run
MaxCmds == 3
\* the configured debounce_time, in clock ticks
DebounceTicks == 2
\* scheduled poll cycles in one run of the pipeline, and of the quota run
MaxPolls == 1
MaxQuotaPolls == 2
\* daily quota resets in one run
MaxResets == 1
\* the vendor's daily call limit and the configured throttle threshold
DailyLimit == 6
ThrottleThreshold == 2

(***************************************************************************)
(* Values.                                                                 *)
(***************************************************************************)
ZoneIds == {1, 2}
Temps == {21, 22, 23}
NoTemp == 0
\* ticks an optimistic entry lives before cleanup drops it, longer than
\* the debounce delay
OptimisticTTL == 3
\* RESUME_REFRESH_DELAY_S, the grace period of the refresh after a resume,
\* in clock ticks
ResumeRefreshDelayTicks == 2
\* no async_set_zone_auto call waits for its refresh
NoResumeCalls == [since |-> 0, calls |-> 0]

\* the payload of a command that carries none (TadoCommand.data is None)
NoData == [type |-> "-", power |-> "-", temp |-> NoTemp, term |-> "-"]

\* per zone type temperature ceilings and the zone types of the home
TEMP_MAX_HEATING == 25
TEMP_MAX_AC == 30
TEMP_MAX_HOT_WATER == 65
HotWaterZoneIds == {5}
AcZoneIds == {6}
ZoneType(z) ==
    IF z \in HotWaterZoneIds THEN "HOT_WATER"
    ELSE IF z \in AcZoneIds THEN "AIR_CONDITIONING"
    ELSE "HEATING"

\* A TadoCommand. n is the identity of the command object: the number of
\* the queue_command call that created it.
Command(t, id, data, val, n) ==
    [t |-> t, id |-> id, data |-> data, val |-> val, n |-> n]

\* resource keys: f"zone_{zone_id}", "presence", f"manual_poll_{type}", ...
ZoneKey(z) == <<"zone", z>>

VARIABLES
    \* ---- TadoApiManager
    action_queue,     \* _action_queue: key -> the pending command
    pending_timers,   \* _pending_timers: key -> ticks until the timer fires
    api_queue,        \* _api_queue: the FIFO ready queue
    wpc,              \* where _worker_loop stands
    batch,            \* the worker's batch list
    plan,             \* outbound calls _process_batch has still to make
    \* ---- coordinator, rate limit, data manager
    data,             \* coordinator.data: "none" before the first fetch
    rl_limit,         \* rate_limit.limit
    rl_remaining,     \* rate_limit.remaining
    srv_remaining,    \* the vendor's remaining quota
    hdr,              \* remaining quota in the last response's headers, -1: none
    disable_when_throttled,
    is_polling_enabled,
    force_next_update,
    poll,             \* scheduled refresh in flight: its quota_start, or -1
    wpoll,            \* the worker's manual refresh in flight, likewise
    zones_meta_loaded,
    offset_invalidated,
    away_invalidated,
    \* ---- scheduler (inputs of one interval computation and its result)
    sched,
    \* ---- the coordinator's own timers and its shutdown
    reset_poll_unsub,      \* _reset_poll_unsub: "none", "pending" or "done"
    resume_refresh_timer,  \* _resume_refresh_timer: "none" or "pending"
    rpc,                   \* where _on_reset_poll stands
    pause_window,          \* reduced logic on, its interval 0, clock inside
    shutdown_done,         \* shutdown() has been called
    reset_fires,           \* runs of the reset timer's callback so far
    reset_fetches,         \* fetches those runs have started
    moved_before,          \* commands moved to the ready queue by shutdown
    resume_timers,         \* the loop's live resume callbacks: ticks left
    resume_hist,           \* observation: the calls of the current burst
    \* ---- the poll interval, the polling switch and the poll cost
    update_interval,       \* update_interval in seconds, NoInterval: None
    last_poll_cost,        \* rate_limit.last_poll_cost
    spoll,                 \* the polling switch's refresh in flight: its
                           \* quota_start, or -1
    rpoll,                 \* the reset poll's quota_start, or -1
    \* ---- the read state of the followed zones
    zone_states,           \* data.zone_states: zone -> the cached state
    srv_zone_states,       \* zone -> the state the vendor holds
    optimistic,            \* OptimisticManager: zone -> its entry
    \* ---- the data manager's tracks, for the followed devices
    track_due,             \* track -> its poll interval has elapsed
    offsets_cache,         \* offsets_cache, also data["offsets"]: device ->
    srv_offsets,           \* device -> the offset the vendor holds
    last_fetch,            \* observation: the latest fetch that ended
    \* ---- observation (history) variables
    ncmds,            \* queue_command calls so far
    burst,            \* key -> the calls of the current debounce burst
    placed,           \* key -> what reached the ready queue for that burst
    age,              \* key -> ticks since the latest queue_command
    spread,           \* key -> the burst's calls were spread over time
    sent,             \* command number -> overlay writes that carried it
    blog,             \* outbound calls of the batch being processed
    bno,              \* batches handed to _process_batch so far
    failed_in,        \* the first batch with a failed outbound call, 0: none
    issued,           \* remote calls counted since the last daily reset
    npolls,
    nresets

mgrVars == <<action_queue, pending_timers, api_queue, wpc, batch, plan>>
coordVars == <<data, rl_limit, rl_remaining, srv_remaining, hdr,
               disable_when_throttled, is_polling_enabled, force_next_update,
               poll, wpoll, zones_meta_loaded, offset_invalidated,
               away_invalidated>>
quotaHist == <<issued, npolls, nresets>>
queueHist == <<ncmds, burst, placed, age, spread>>
batchHist == <<sent, blog, bno, failed_in>>
timerVars == <<reset_poll_unsub, resume_refresh_timer, rpc, pause_window,
               shutdown_done, reset_fires, reset_fetches, moved_before>>
resumeVars == <<resume_timers, resume_hist>>
pollVars == <<update_interval, last_poll_cost, spoll, rpoll>>
readVars == <<zone_states, srv_zone_states, optimistic>>
fetchVars == <<track_due, offsets_cache, srv_offsets, last_fetch>>
vars == <<mgrVars, coordVars, sched, timerVars,
          resumeVars, pollVars, readVars, fetchVars,
          queueHist, batchHist, quotaHist>>

(***************************************************************************)
(* Python dicts: functions with a dynamic domain.                          *)
(***************************************************************************)
EmptyMap == [x \in {} |-> 0]
Has(f, k) == k \in DOMAIN f
Put(f, k, v) == [x \in (DOMAIN f) \cup {k} |-> IF x = k THEN v ELSE f[x]]
Pop(f, k) == [x \in (DOMAIN f) \ {k} |-> f[x]]
Get(f, k, d) == IF k \in DOMAIN f THEN f[k] ELSE d
Min(a, b) == IF a <= b THEN a ELSE b
Max(a, b) == IF a >= b THEN a ELSE b
Last(s) == s[Len(s)]

(***************************************************************************)
(* The read state: the cached zone states of coordinator.data, the state   *)
(* the vendor holds for the same zones, and the optimistic entries laid    *)
(* over the cache. A specification follows the zones in the domain of      *)
(* zone_states; the read state of the other zones is left out.             *)
(***************************************************************************)
NoZonesFollowed ==
    /\ zone_states = EmptyMap
    /\ srv_zone_states = EmptyMap
    /\ optimistic = EmptyMap

\* the data manager's tracks with a poll interval of their own
Tracks == {"slow", "offsets"}
NoFetch == [ok |-> TRUE, tracks |-> {}]

NoDevicesFollowed ==
    /\ track_due = [t \in Tracks |-> FALSE]
    /\ offsets_cache = EmptyMap
    /\ srv_offsets = EmptyMap
    /\ last_fetch = NoFetch

\* the vendor's offsets once an outbound call has returned (ok) or raised
VendorOffsetsAfterCall(offsets, call, ok) ==
    IF ok /\ call.api = "set_temperature_offset" /\ Has(offsets, call.id)
    THEN Put(offsets, call.id, call.val)
    ELSE offsets

\* a zone state: the setting's power and temperature, and overlay_active
ZoneState(power, temp, overlay) ==
    [power |-> power, temp |-> temp, overlay |-> overlay]

\* OptimisticManager.set_zone(zone_id, overlay, power=power,
\* operation_mode=mode): one entry per zone, written over the one before;
\* power and mode are "-" when the caller gives none
OptimisticSetZone(entries, z, overlay, power, mode) ==
    IF ~Has(srv_zone_states, z) THEN entries
    ELSE Put(entries, z, [overlay |-> overlay, power |-> power,
                          mode |-> mode, age |-> 0])

\* OptimisticManager.get_zone_power and get_zone_overlay: "-" without entry
GetZonePower(entries, z) ==
    IF Has(entries, z) THEN entries[z].power ELSE "-"
GetZoneOverlay(entries, z) ==
    IF Has(entries, z)
    THEN (IF entries[z].overlay THEN "manual" ELSE "auto")
    ELSE "-"

\* an entry's value is what the confirmed state of its zone says
EntryConfirmed(e, st) ==
    /\ e.overlay = st.overlay
    /\ e.power \in {"-", st.power}
    /\ \/ e.mode \in {"-", "auto"}
       \/ e.mode = "heat" /\ st.power = "ON"
       \/ e.mode = "off" /\ st.power = "OFF"

\* OptimisticManager.cleanup against the confirmed states of a fetch: an
\* entry goes when its zone's confirmed state matches it or when it has
\* outlived the time to live
OptimisticCleanup(entries, confirmed) ==
    LET keep == {z \in DOMAIN entries :
                    /\ entries[z].age <= OptimisticTTL
                    /\ ~(Has(confirmed, z)
                         /\ EntryConfirmed(entries[z], confirmed[z]))}
    IN  [z \in keep |-> entries[z]]

\* one tick of the clock on the entries' created_at
AgeEntries(entries) ==
    [z \in DOMAIN entries |->
        [entries[z] EXCEPT !.age = Min(OptimisticTTL + 1, @ + 1)]]

\* _patch_zone_local: the cached states after the overlay payload d has
\* been patched into zone z; nothing without data or without the zone
PatchZoneLocal(states, z, d) ==
    IF ~Has(states, z) THEN states
    ELSE Put(states, z,
             ZoneState(IF d.power # "-" THEN d.power ELSE states[z].power,
                       IF d.temp # NoTemp THEN d.temp ELSE states[z].temp,
                       TRUE))

\* _patch_zone_resume: the overlay is taken off the cached state of zone z
PatchZoneResume(states, z) ==
    IF ~Has(states, z) THEN states
    ELSE Put(states, z, [states[z] EXCEPT !.overlay = FALSE])

\* the vendor's states once it has answered set_all_zones_overlay
RECURSIVE VendorOverlays(_, _, _)
VendorOverlays(states, overlays, i) ==
    IF i > Len(overlays) THEN states
    ELSE LET z == overlays[i].id
             d == overlays[i].data
         IN  VendorOverlays(
                 IF Has(states, z)
                 THEN Put(states, z,
                          ZoneState(d.power,
                                    IF d.temp # NoTemp THEN d.temp
                                    ELSE states[z].temp,
                                    TRUE))
                 ELSE states,
                 overlays, i + 1)

\* the vendor's states once an outbound call has returned (ok) or raised
VendorAfterCall(states, call, ok) ==
    IF ~ok THEN states
    ELSE IF call.api = "set_all_zones_overlay"
    THEN VendorOverlays(states, call.overlays, 1)
    ELSE IF call.api = "reset_all_zones_overlay"
    THEN [z \in DOMAIN states |->
            IF \E i \in 1..Len(call.zones) : call.zones[i] = z
            THEN [states[z] EXCEPT !.overlay = FALSE]
            ELSE states[z]]
    ELSE states

(***************************************************************************)
(* TadoApiManager.queue_command and its timer callback.                    *)
(***************************************************************************)
\* _pending_timers after queue_command: an existing timer for the key is
\* cancelled and a new one runs the full debounce delay
TimersNoRestart(timers, key) ==
    IF Has(timers, key) THEN timers ELSE Put(timers, key, DebounceTicks)
TimersAfterQueue(timers, key) ==
    Put(Pop(timers, key), key, DebounceTicks)

\* _action_queue after queue_command: the pending command is overwritten
ActionsKeepFirst(actions, key, cmd) ==
    IF Has(actions, key) THEN actions ELSE Put(actions, key, cmd)
ActionsAfterQueue(actions, key, cmd) ==
    Put(actions, key, cmd)

\* The manager's debounce stage as a value, so that an operation that calls
\* queue_command several times can thread it through the calls.
Stage ==
    [aq |-> action_queue, tm |-> pending_timers, n |-> ncmds,
     bu |-> burst, pl |-> placed, ag |-> age, sp |-> spread,
     zs |-> zone_states, op |-> optimistic]

\* queue_command(key, TadoCommand(t, zone_id=id, data=d)) on stage S
QueueCommand(S, key, t, id, d, val) ==
    LET cmd == Command(t, id, d, val, S.n + 1)
        pending == Has(S.tm, key)
    IN  [aq |-> ActionsAfterQueue(S.aq, key, cmd),
         tm |-> TimersAfterQueue(S.tm, key),
         n  |-> S.n + 1,
         bu |-> Put(S.bu, key,
                    IF pending THEN Append(S.bu[key], cmd) ELSE <<cmd>>),
         pl |-> IF pending THEN S.pl ELSE Put(S.pl, key, <<>>),
         ag |-> Put(S.ag, key, 0),
         sp |-> Put(S.sp, key,
                    IF pending THEN S.sp[key] \/ S.ag[key] > 0 ELSE FALSE),
         zs |-> S.zs,
         op |-> S.op]

SetStage(S) ==
    /\ action_queue' = S.aq
    /\ pending_timers' = S.tm
    /\ ncmds' = S.n
    /\ burst' = S.bu
    /\ placed' = S.pl
    /\ age' = S.ag
    /\ spread' = S.sp
    /\ zone_states' = S.zs
    /\ optimistic' = S.op

\* _move_to_worker: the debounce timer of key fires
MoveToWorker(key) ==
    /\ Has(pending_timers, key)
    /\ pending_timers[key] = 0
    /\ pending_timers' = Pop(pending_timers, key)
    /\ IF Has(action_queue, key)
       THEN /\ api_queue' = Append(api_queue, action_queue[key])
            /\ action_queue' = Pop(action_queue, key)
            /\ placed' = Put(placed, key,
                   Append(placed[key],
                          [cmd |-> action_queue[key], age |-> age[key]]))
       ELSE UNCHANGED <<api_queue, action_queue, placed>>
    /\ UNCHANGED <<wpc, batch, plan, coordVars,
                   sched, timerVars,
                   resumeVars, pollVars, readVars, fetchVars, ncmds, burst, age,
                   spread, batchHist, quotaHist>>

\* One clock tick: every running timer comes one tick closer. A timer that
\* is due (0) fires when the loop gets to it, never before.
Tick ==
    /\ \/ \E k \in DOMAIN pending_timers : pending_timers[k] > 0
       \/ \E i \in 1..Len(resume_timers) : resume_timers[i] > 0
    /\ pending_timers' =
          [k \in DOMAIN pending_timers |-> Max(0, pending_timers[k] - 1)]
    /\ age' = [k \in DOMAIN age |-> Min(DebounceTicks, age[k] + 1)]
    /\ optimistic' = AgeEntries(optimistic)
    /\ resume_timers' = [i \in 1..Len(resume_timers) |->
                             Max(0, resume_timers[i] - 1)]
    /\ resume_hist' = IF resume_hist.calls = 0 THEN resume_hist
                      ELSE [resume_hist EXCEPT
                               !.since = Min(ResumeRefreshDelayTicks, @ + 1)]
    /\ UNCHANGED <<action_queue, api_queue, wpc, batch, plan, coordVars,
                   sched, timerVars, pollVars,
                   zone_states, srv_zone_states, fetchVars,
                   ncmds, burst, placed, spread, batchHist, quotaHist>>

(***************************************************************************)
(* CommandMerger: the batch reduced to one action set per kind. Python     *)
(* dicts keep insertion order: a dict is a sequence of entries here, and   *)
(* writing an existing key replaces its value in place.                    *)
(***************************************************************************)
RECURSIVE IndexOf(_, _, _)
IndexOf(entries, id, i) ==
    IF i > Len(entries) THEN 0
    ELSE IF entries[i].id = id THEN i
    ELSE IndexOf(entries, id, i + 1)

DictSet(entries, e) ==
    LET i == IndexOf(entries, e.id, 1)
    IN  IF i = 0 THEN Append(entries, e) ELSE [entries EXCEPT ![i] = e]

EmptyMerged ==
    [presence |-> "-", child_lock |-> <<>>, offsets |-> <<>>,
     away_temps |-> <<>>, dazzle_modes |-> <<>>, early_starts |-> <<>>,
     open_windows |-> <<>>, identifies |-> <<>>, zones |-> <<>>,
     manual_poll |-> "-"]

Entry(cmd) == [id |-> cmd.id, val |-> cmd.val, data |-> cmd.data, n |-> cmd.n]

\* manual poll scopes are OR-ed: "all" dominates, two different narrower
\* scopes together need a full refresh
MergeScope(old, new) ==
    IF old = "-" THEN new
    ELSE IF old = new THEN old
    ELSE "all"

\* CommandMerger.add: a later command overrides an earlier one of the same
\* resource id; a resume is a zone entry without data
MergerAdd(m, cmd) ==
    CASE cmd.t = "SET_PRESENCE" -> [m EXCEPT !.presence = cmd.val]
      [] cmd.t = "SET_CHILD_LOCK" ->
            [m EXCEPT !.child_lock = DictSet(@, Entry(cmd))]
      [] cmd.t = "SET_OFFSET" ->
            [m EXCEPT !.offsets = DictSet(@, Entry(cmd))]
      [] cmd.t = "SET_AWAY_TEMP" ->
            [m EXCEPT !.away_temps = DictSet(@, Entry(cmd))]
      [] cmd.t = "SET_DAZZLE" ->
            [m EXCEPT !.dazzle_modes = DictSet(@, Entry(cmd))]
      [] cmd.t = "SET_EARLY_START" ->
            [m EXCEPT !.early_starts = DictSet(@, Entry(cmd))]
      [] cmd.t = "SET_OPEN_WINDOW" ->
            [m EXCEPT !.open_windows = DictSet(@, Entry(cmd))]
      [] cmd.t = "IDENTIFY" ->
            [m EXCEPT !.identifies = DictSet(@, Entry(cmd))]
      [] cmd.t = "SET_OVERLAY" ->
            [m EXCEPT !.zones = DictSet(@, Entry(cmd))]
      [] cmd.t = "RESUME_SCHEDULE" ->
            [m EXCEPT !.zones = DictSet(@, [Entry(cmd) EXCEPT !.data = NoData])]
      [] cmd.t = "MANUAL_POLL" ->
            [m EXCEPT !.manual_poll = MergeScope(@, cmd.val)]

\* _process_batch, lines 120-124: merger.add for every command, in order
RECURSIVE MergeFromReversed(_, _, _)
MergeFromReversed(m, commands, i) ==
    IF i > Len(commands) THEN m
    ELSE MergeFromReversed(MergerAdd(m, commands[Len(commands) + 1 - i]),
                           commands, i + 1)
RECURSIVE MergeFrom(_, _, _)
MergeFrom(m, commands, i) ==
    IF i > Len(commands) THEN m
    ELSE MergeFrom(MergerAdd(m, commands[i]), commands, i + 1)

Merge(commands) == MergeFrom(EmptyMerged, commands, 1)

(***************************************************************************)
(* The outbound calls of _process_batch, in the order the code makes them. *)
(***************************************************************************)
Call(api, id, val, zones, overlays) ==
    [api |-> api, id |-> id, val |-> val, zones |-> zones,
     overlays |-> overlays]

\* one call per entry of a per-device or per-zone action dict
EachCall(api, entries) ==
    [i \in 1..Len(entries) |->
        Call(api, entries[i].id, entries[i].val, <<>>, <<>>)]

IsResume(e) == e.data = NoData
IsOverlay(e) == e.data # NoData
ZoneIdsOf(entries) == [i \in 1..Len(entries) |-> entries[i].id]

\* _execute_zone_actions: one bulk resume and one bulk overlay call
ZoneActionsPerZone(zones) ==
    [i \in 1..Len(zones) |->
        IF IsResume(zones[i])
        THEN Call("reset_all_zones_overlay", 0, "-", <<zones[i].id>>, <<>>)
        ELSE Call("set_all_zones_overlay", 0, "-", <<>>, <<zones[i]>>)]
ExecuteZoneActions(zones) ==
    LET resumes == SelectSeq(zones, IsResume)
        overlays == SelectSeq(zones, IsOverlay)
    IN  (IF resumes # <<>>
         THEN <<Call("reset_all_zones_overlay", 0, "-",
                     ZoneIdsOf(resumes), <<>>)>>
         ELSE <<>>)
        \o
        (IF overlays # <<>>
         THEN <<Call("set_all_zones_overlay", 0, "-", <<>>, overlays)>>
         ELSE <<>>)

\* _process_batch, lines 126-156
PlanOf(merged) ==
    (IF merged.presence # "-"
     THEN <<Call("set_presence", 0, merged.presence, <<>>, <<>>)>>
     ELSE <<>>)
    \o EachCall("set_child_lock", merged.child_lock)
    \o EachCall("set_temperature_offset", merged.offsets)
    \o EachCall("set_away_configuration", merged.away_temps)
    \o EachCall("set_dazzle_mode", merged.dazzle_modes)
    \o EachCall("set_early_start", merged.early_starts)
    \o EachCall("set_open_window_detection", merged.open_windows)
    \o EachCall("identify_device", merged.identifies)
    \o ExecuteZoneActions(merged.zones)

\* what is left of the plan when a call has returned (ok) or raised: every
\* call sits in its own try/except Exception
AbortOnFailure(calls, ok) == IF ok THEN Tail(calls) ELSE <<>>
AfterCall(calls, ok) == Tail(calls)

(***************************************************************************)
(* The poll cycle: _async_update_data around DataManager.fetch_full_update *)
(***************************************************************************)
\* RateLimitManager.is_throttled for a local remaining count
IsThrottled(remaining) == remaining <= ThrottleThreshold

(***************************************************************************)
(* The interval scheduler: _calculate_auto_quota_interval. Instants are    *)
(* seconds since today's midnight in Europe/Berlin, intervals are seconds. *)
(* The code computes budgets in floating point; here they are exact        *)
(* multiples of 1/BudgetUnit of a call, which they are whenever the reset  *)
(* is a whole number of quarter hours away.                                *)
(***************************************************************************)
SECONDS_PER_HOUR == 3600
SECONDS_PER_DAY == 86400
MIN_AUTO_QUOTA_INTERVAL_S == 45
MIN_PROXY_INTERVAL_S == 120
API_RESET_HOUR == 0
API_RESET_BUFFER_MINUTES == 1
\* the result None: no interval of the scheduler's own
NoInterval == -1
\* the configured scan interval (_base_scan_interval)
ScanInterval == 600
QuarterHour == 900
BudgetUnit == 921600

\* floor(a * b / m) without leaving 32 bits, for a, b >= 0 and 0 < m < 2^30;
\* the quotient saturates at 2^29, far above every interval it is cut to
RECURSIVE MulDivMod(_, _, _)
MulDivMod(a, b, m) ==
    IF b = 0 THEN [q |-> 0, r |-> 0]
    ELSE LET h == MulDivMod(a, b \div 2, m)
             dq == 2 * h.q + ((2 * h.r) \div m)
             dr == (2 * h.r) % m
             aq == IF b % 2 = 1 THEN (a \div m) + ((dr + (a % m)) \div m) ELSE 0
             ar == IF b % 2 = 1 THEN (dr + (a % m)) % m ELSE dr
         IN  [q |-> Min(536870912, dq + aq), r |-> ar]
MulDiv(a, b, m) == IF a = 0 THEN 0 ELSE MulDivMod(a, b, m).q

\* _get_next_reset_time and _get_seconds_until_reset
ResetOfDay == API_RESET_HOUR * SECONDS_PER_HOUR + API_RESET_BUFFER_MINUTES * 60
\* the next reset that stays on today's date when the clock is on the reset
GetNextResetTimeToday(now) ==
    IF ResetOfDay < now THEN ResetOfDay + SECONDS_PER_DAY ELSE ResetOfDay
GetNextResetTime(now) ==
    IF ResetOfDay <= now THEN ResetOfDay + SECONDS_PER_DAY ELSE ResetOfDay
GetSecondsUntilReset(now) == GetNextResetTime(now) - now

\* quota_math.get_next_reset_time: the same roll-over around 12:30
SafeWindowMidpoint == 12 * SECONDS_PER_HOUR + 30 * 60
QuotaMathNextResetTime(now) ==
    IF SafeWindowMidpoint <= now THEN SafeWindowMidpoint + SECONDS_PER_DAY
    ELSE SafeWindowMidpoint

\* _is_in_reduced_window: conf.start and conf.end are minutes of the day
IsInReducedWindow(t, conf) ==
    LET tod == t % SECONDS_PER_DAY
        start == conf.start * 60
        end == conf.end * 60
    IN  IF start <= end
        THEN start <= tod /\ tod <= end
        ELSE tod >= start \/ tod <= end

\* the search for the end of a 0-interval window that ignores the reset
RECURSIVE PauseWalkPastReset(_, _, _)
PauseWalkPastReset(test_dt, next_reset, conf) ==
    IF IsInReducedWindow(test_dt, conf)
    THEN PauseWalkPastReset(test_dt + 15 * 60, next_reset, conf)
    ELSE test_dt
\* the search for the end of a 0-interval window, lines 512-517
RECURSIVE PauseWalk(_, _, _)
PauseWalk(test_dt, next_reset, conf) ==
    IF IsInReducedWindow(test_dt, conf) /\ test_dt < next_reset
    THEN PauseWalk(test_dt + 15 * 60, next_reset, conf)
    ELSE test_dt

\* the budget with the background cost left out of the day's pool
BudgetKeepingBackground(limit, remaining, threshold, bg, pct, s) ==
    LET q == s \div QuarterHour
        per_day == SECONDS_PER_DAY \div QuarterHour
        expected_background_so_far == bg * (per_day - q)
        actual_used_total == Max(0, limit - remaining)
        user_calls_so_far ==
            Max(0, actual_used_total * per_day - expected_background_so_far)
        user_excess == Max(0, user_calls_so_far - threshold * per_day)
        available_for_day == Max(0, limit * per_day - user_excess)
    IN  Max(0, available_for_day * pct * q)

\* _get_remaining_polling_budget, in BudgetUnit-ths of a call
GetRemainingPollingBudget(limit, remaining, threshold, bg, pct, s) ==
    LET q == s \div QuarterHour
        per_day == SECONDS_PER_DAY \div QuarterHour
        expected_background_so_far == bg * (per_day - q)
        actual_used_total == Max(0, limit - remaining)
        user_calls_so_far ==
            Max(0, actual_used_total * per_day - expected_background_so_far)
        user_excess == Max(0, user_calls_so_far - threshold * per_day)
        available_for_day == Max(0, (limit - bg) * per_day - user_excess)
    IN  Max(0, available_for_day * pct * q)

\* lines 579-582: the chunk of one step of the walk. The clock is in whole
\* seconds plus half a second when half is 1, and int() cuts the seconds
\* that are left to whole ones.
ChunkNoFloor(test_dt, next_reset, half) ==
    Min(3600, next_reset - test_dt - half)
Chunk(test_dt, next_reset, half) ==
    Max(MIN_AUTO_QUOTA_INTERVAL_S, Min(3600, next_reset - test_dt - half))

\* the walk of _calculate_weighted_interval, lines 577-588
RECURSIVE ChunkWalk(_, _, _, _, _)
ChunkWalk(test_dt, next_reset, conf, normal_seconds, reduced_seconds) ==
    IF test_dt < next_reset
    THEN LET chunk == Chunk(test_dt, next_reset, 0)
         IN  IF IsInReducedWindow(test_dt, conf)
             THEN ChunkWalk(test_dt + chunk, next_reset, conf,
                            normal_seconds, reduced_seconds + chunk)
             ELSE ChunkWalk(test_dt + chunk, next_reset, conf,
                            normal_seconds + chunk, reduced_seconds)
    ELSE [normal |-> normal_seconds, reduced |-> reduced_seconds]

\* _calculate_weighted_interval; c is the configuration and the clock
CalculateWeightedInterval(c, next_reset, remaining_budget, min_floor) ==
    IF ~c.conf_ok THEN SECONDS_PER_HOUR
    ELSE LET w == ChunkWalk(c.now, next_reset, c, 0, 0)
             reduced_budget_cost ==
                 IF c.interval = 0 THEN 0
                 ELSE MulDiv(w.reduced * c.cost, BudgetUnit, c.interval)
             normal_budget == Max(0, remaining_budget - reduced_budget_cost)
             cap == IF c.interval > 0 THEN c.interval ELSE SECONDS_PER_HOUR
         IN  IF normal_budget > 0
             THEN Max(min_floor,
                      Min(cap, MulDiv(w.normal * c.cost, BudgetUnit,
                                      normal_budget)))
             ELSE SECONDS_PER_HOUR

\* rule 1, lines 493-500: the interval while the budget is throttled
ThrottledUntilReset(dwt, seconds_until_reset) ==
    Max(SECONDS_PER_HOUR, seconds_until_reset)
ThrottledOneHour(dwt, seconds_until_reset) == SECONDS_PER_HOUR
ThrottledInterval(dwt, seconds_until_reset) ==
    IF dwt THEN Max(SECONDS_PER_HOUR, seconds_until_reset)
    ELSE SECONDS_PER_HOUR

\* rules 3 to 5 with the floor of the installations without a proxy
AutoQuotaIntervalOneFloor(c, limit, remaining, seconds_until_reset) ==
    IF c.pct <= 0 THEN NoInterval
    ELSE LET min_floor == MIN_AUTO_QUOTA_INTERVAL_S
             remaining_budget ==
                 GetRemainingPollingBudget(limit, remaining, ThrottleThreshold,
                                           c.bg, c.pct, seconds_until_reset)
         IN  IF remaining_budget <= 0
             THEN IF c.base > 0 THEN Max(c.base, 300) ELSE NoInterval
             ELSE IF ~c.reduced
             THEN Max(min_floor,
                      Min(SECONDS_PER_HOUR,
                          MulDiv(seconds_until_reset * c.cost, BudgetUnit,
                                 remaining_budget)))
             ELSE CalculateWeightedInterval(c, GetNextResetTime(c.now),
                                            remaining_budget, min_floor)
\* rules 3 to 5, lines 527-558
AutoQuotaInterval(c, limit, remaining, seconds_until_reset) ==
    IF c.pct <= 0 THEN NoInterval
    ELSE LET min_floor == IF c.proxy THEN MIN_PROXY_INTERVAL_S
                          ELSE MIN_AUTO_QUOTA_INTERVAL_S
             remaining_budget ==
                 GetRemainingPollingBudget(limit, remaining, ThrottleThreshold,
                                           c.bg, c.pct, seconds_until_reset)
         IN  IF remaining_budget <= 0
             THEN IF c.base > 0 THEN Max(c.base, 300) ELSE NoInterval
             ELSE IF ~c.reduced
             THEN Max(min_floor,
                      Min(SECONDS_PER_HOUR,
                          MulDiv(seconds_until_reset * c.cost, BudgetUnit,
                                 remaining_budget)))
             ELSE CalculateWeightedInterval(c, GetNextResetTime(c.now),
                                            remaining_budget, min_floor)

\* _calculate_auto_quota_interval
CalculateAutoQuotaInterval(c, limit, remaining, dwt) ==
    LET seconds_until_reset == GetSecondsUntilReset(c.now)
    IN  IF limit <= 0 THEN NoInterval
        ELSE IF IsThrottled(remaining)
        THEN ThrottledInterval(dwt, seconds_until_reset)
        ELSE IF c.reduced /\ c.conf_ok /\ IsInReducedWindow(c.now, c)
        THEN IF c.interval = 0
             THEN Max(MIN_AUTO_QUOTA_INTERVAL_S,
                      PauseWalk(c.now + 60, GetNextResetTime(c.now), c) - c.now)
             ELSE c.interval
        ELSE AutoQuotaInterval(c, limit, remaining, seconds_until_reset)

\* utils.apply_jitter: the interval perturbed by up to percent either way;
\* the two ends of the range and its middle stand for the uniform draw
ApplyJitter(interval, percent) ==
    {interval + (interval * d) \div 100 : d \in {0 - percent, 0, percent}}

\* the update intervals without the fallback to the base scan interval
AdjustedIntervalsNoBase(c, calculated) ==
    IF calculated = NoInterval
    THEN {NoInterval}
    ELSE IF c.proxy
    THEN ApplyJitter(calculated, c.jitter)
    ELSE {calculated}

\* _adjust_interval_for_auto_quota: the update intervals it may set for a
\* calculated interval (NoInterval: update_interval is None)
AdjustedIntervals(c, calculated) ==
    IF calculated = NoInterval
    THEN {IF c.base > 0 THEN c.base ELSE NoInterval}
    ELSE IF c.proxy
    THEN ApplyJitter(calculated, c.jitter)
    ELSE {calculated}

\* RateLimitManager.sync_from_headers: both fields are overwritten from the
\* headers of the last response, when there was one
SyncLimit(h) == IF h = -1 THEN rl_limit ELSE DailyLimit
SyncRemaining(h) == IF h = -1 THEN rl_remaining ELSE h

\* The configuration of the pipeline: no proxy, a reduced window from 22:00
\* to 06:00 with interval 0 and the clock at 23:00 inside it; auto quota at
\* 50 percent where the reset timer is armed, off elsewhere. reduced:
\* is_reduced_polling_logic_enabled.
AutoQuotaPercent ==
    IF reset_poll_unsub = "none" /\ ~shutdown_done THEN 0 ELSE 50
PipeConf(reduced) ==
    [now |-> 23 * SECONDS_PER_HOUR, reduced |-> reduced, conf_ok |-> TRUE,
     start |-> 1320, end |-> 360, interval |-> 0, pct |-> AutoQuotaPercent,
     proxy |-> FALSE, base |-> ScanInterval, bg |-> 0, cost |-> 2,
     jitter |-> 0]

\* async_update_interval_local: the update interval it sets
UpdateIntervalLocal(enabled, reduced, limit, remaining) ==
    LET c == PipeConf(reduced)
        new_interval_s == CalculateAutoQuotaInterval(c, limit, remaining,
                                                     disable_when_throttled)
    IN  IF ~enabled THEN NoInterval
        ELSE IF new_interval_s = NoInterval
        THEN IF c.base > 0 THEN c.base ELSE NoInterval
        ELSE new_interval_s

\* _adjust_interval_for_auto_quota: the update interval it sets (without a
\* proxy there is no jitter)
AdjustIntervalForAutoQuota(reduced, limit, remaining) ==
    LET c == PipeConf(reduced)
    IN  CHOOSE i \in AdjustedIntervals(c,
                         CalculateAutoQuotaInterval(c, limit, remaining,
                             disable_when_throttled)) : TRUE

\* _async_update_data, lines 369-385: the update interval after a cycle
\* that returned the cached data. Only the return of the 0-interval window
\* recalculates it, and the polling switch is tested before the window.
IntervalAfterSkip(limit, remaining) ==
    IF is_polling_enabled /\ pause_window /\ data # "none"
    THEN UpdateIntervalLocal(is_polling_enabled, pause_window, limit,
                             remaining)
    ELSE update_interval

\* _async_update_data, lines 418-430, after the fetch of a refresh that
\* began with quota_start: sync_from_headers has run, the cost of the poll
\* is the drop of the remaining count, and the interval is adjusted
LastPollCost(quota_start, remaining, last) ==
    IF quota_start - remaining > 0 THEN quota_start - remaining ELSE last
AfterFetch(r, quota_start) ==
    IF r = "ok"
    THEN /\ last_poll_cost' = LastPollCost(quota_start, rl_remaining',
                                           last_poll_cost)
         /\ update_interval' =
               AdjustIntervalForAutoQuota(pause_window, rl_limit',
                                          rl_remaining')
    ELSE UNCHANGED <<last_poll_cost, update_interval>>

\* _async_update_data, lines 369-402: the cycle returns the cached data
\* without fetching (remaining: the local count at that moment)
RefreshSkipsThrottleIgnored(remaining, force) ==
    \/ ~is_polling_enabled /\ data # "none"
    \/ pause_window /\ data # "none"
RefreshSkips(remaining, force) ==
    \/ ~is_polling_enabled /\ data # "none"
    \/ pause_window /\ data # "none"
    \/ /\ disable_when_throttled
       /\ IsThrottled(remaining)
       /\ ~force
       /\ data # "none"

\* fetch_full_update: the remote calls of one fetch. Slow track (zones and
\* devices) when the metadata cache is empty, one offset call per device
\* and one away call per heating zone when invalidated, then the two fast
\* track calls.
FetchCalls(meta, offInv, awayInv) ==
    (IF ~meta THEN 2 ELSE 0)
    + (IF offInv THEN 1 ELSE 0)
    + (IF awayInv THEN Cardinality(ZoneIds) ELSE 0)
    + 2

\* A remote call counts as issued when the vendor answered it or rejected
\* it because the budget was used up; a call lost to a transient error,
\* which may never have reached the vendor, is left out of the count.
Counted(ok) == IF ok \/ srv_remaining = 0 THEN 1 ELSE 0

\* fetch_full_update, lines 54-57, 83-86 and 92: the tracks of a fetch
\* that starts with these caches, flags and elapsed intervals
FetchesSlowEveryCall(meta, due) == TRUE
FetchesSlow(meta, due) == ~meta \/ due["slow"]
FetchesOffsets(offInv, due) == offInv \/ due["offsets"]
FetchTracks ==
    {"fast"}
    \cup (IF FetchesSlow(zones_meta_loaded, track_due)
          THEN {"slow"} ELSE {})
    \cup (IF FetchesOffsets(offset_invalidated, track_due)
          THEN {"offsets"} ELSE {})
    \cup (IF away_invalidated THEN {"away"} ELSE {})

\* the tracks a fetch has behind it when the budget runs out after k
\* answered calls: the slow track and the offsets raise on the rejected
\* call, the away track logs it and goes on to the fast track, which raises
TracksBehind(T, k) ==
    LET slow == IF "slow" \in T THEN 2 ELSE 0
        offs == slow + (IF "offsets" \in T THEN 1 ELSE 0)
    IN  (IF "slow" \in T /\ k >= slow THEN {"slow"} ELSE {})
        \cup (IF "offsets" \in T /\ k >= offs THEN {"offsets"} ELSE {})
        \cup (IF "away" \in T /\ k >= offs THEN {"away"} ELSE {})

\* the data manager after a fetch has put the tracks D behind it
TracksEnd(D, ok) ==
    /\ zones_meta_loaded' = (zones_meta_loaded \/ "slow" \in D)
    /\ offset_invalidated' = (offset_invalidated /\ "offsets" \notin D)
    /\ away_invalidated' = (away_invalidated /\ "away" \notin D)
    /\ track_due' = [t \in Tracks |-> track_due[t] /\ t \notin D]
    /\ offsets_cache' = IF "offsets" \in D THEN srv_offsets
                        ELSE offsets_cache
    /\ last_fetch' = [ok |-> ok, tracks |-> D]

\* The fetch of a refresh: every call is answered ("ok"); the first call
\* fails and TadoError is raised ("error"); or the budget runs out in the
\* middle, the calls it still covers are answered and the next one is
\* rejected ("rejected"). A failed fetch leaves coordinator.data and the
\* rate limit fields as they are, and the data manager keeps what the
\* tracks behind it have done.
RefreshOutcomes == {"ok", "error", "rejected"}
RefreshEnd(r) ==
    LET T == FetchTracks
        cost == FetchCalls("slow" \notin T, "offsets" \in T, "away" \in T)
    IN  CASE r = "ok" ->
                /\ srv_remaining >= cost
                /\ srv_remaining' = srv_remaining - cost
                /\ hdr' = srv_remaining - cost
                /\ issued' = issued + cost
                /\ TracksEnd(T, TRUE)
                /\ rl_limit' = DailyLimit
                /\ rl_remaining' = srv_remaining - cost
                /\ data' = "ok"
                /\ zone_states' = srv_zone_states
                /\ optimistic' = OptimisticCleanup(optimistic, srv_zone_states)
          [] r = "error" ->
                /\ issued' = issued + Counted(FALSE)
                /\ TracksEnd({}, FALSE)
                /\ UNCHANGED <<srv_remaining, hdr, rl_limit, rl_remaining,
                               data, zone_states, optimistic>>
          [] r = "rejected" ->
                /\ srv_remaining > 0
                /\ srv_remaining < cost
                /\ srv_remaining' = 0
                /\ hdr' = 0
                /\ issued' = issued + srv_remaining + 1
                /\ TracksEnd(TracksBehind(T, srv_remaining), FALSE)
                /\ UNCHANGED <<rl_limit, rl_remaining, data, zone_states,
                               optimistic>>

\* the update coordinator's timer starts a scheduled refresh
PollBegin(bound) ==
    /\ poll = -1
    /\ npolls < bound
    /\ npolls' = npolls + 1
    /\ IF RefreshSkips(rl_remaining, force_next_update)
       THEN /\ update_interval' = IntervalAfterSkip(rl_limit, rl_remaining)
            /\ UNCHANGED <<poll, force_next_update>>
       ELSE /\ force_next_update' = FALSE
            /\ poll' = rl_remaining
            /\ UNCHANGED update_interval
    /\ UNCHANGED <<mgrVars, data, rl_limit, rl_remaining, srv_remaining, hdr,
                   disable_when_throttled, is_polling_enabled, wpoll,
                   zones_meta_loaded, offset_invalidated, away_invalidated,
                   sched, timerVars, last_poll_cost, spoll, rpoll,
                   resumeVars, readVars, fetchVars, queueHist,
                   batchHist, issued,
                   nresets>>

PollEnd(r) ==
    /\ poll # -1
    /\ RefreshEnd(r)
    /\ AfterFetch(r, poll)
    /\ poll' = -1
    /\ UNCHANGED <<mgrVars, disable_when_throttled, is_polling_enabled,
                   force_next_update, wpoll, spoll, rpoll,
                   sched, timerVars, resumeVars,
                   srv_zone_states, srv_offsets,
                   queueHist, batchHist,
                   npolls, nresets>>

\* the vendor resets the quota at the daily reset instant
DailyReset ==
    /\ nresets < MaxResets
    /\ nresets' = nresets + 1
    /\ srv_remaining' = DailyLimit
    /\ issued' = 0
    /\ UNCHANGED <<mgrVars, data, rl_limit, rl_remaining, hdr,
                   disable_when_throttled, is_polling_enabled,
                   force_next_update, poll, wpoll, zones_meta_loaded,
                   offset_invalidated, away_invalidated,
                   sched, timerVars,
                   resumeVars, pollVars, readVars, fetchVars, queueHist,
                   batchHist, npolls>>

(***************************************************************************)
(* TadoApiManager._worker_loop and _process_batch.                         *)
(***************************************************************************)
\* DataManager.invalidate_cache(scope)
InvalidateMeta(scope) ==
    IF scope \in {"all", "metadata"} THEN FALSE ELSE zones_meta_loaded
InvalidateOffsetsAnyScope(scope) == TRUE
InvalidateOffsets(scope) ==
    IF scope \in {"all", "offsets"} THEN TRUE ELSE offset_invalidated
InvalidateAway(scope) ==
    IF scope \in {"all", "away"} THEN TRUE ELSE away_invalidated

\* where the worker loop stands once _process_batch has been entered with
\* outbound calls to make: line 108 awaits the batch
AfterDrainDetached == "get"
AfterDrain == "process"

\* _process_batch, lines 158-165, and the loop's batch.clear() or except
\* branch. commands: the batch; h: the headers of the last response.
BatchTail(commands, h) ==
    LET merged == Merge(commands)
        remaining == SyncRemaining(h)
    IN  /\ rl_limit' = SyncLimit(h)
        /\ IF data = "none"
           THEN \* self.data.rate_limit raises: the except branch sleeps and
                \* the loop goes on with the batch as it is
                /\ wpc' = "sleep"
                /\ batch' = commands
                /\ rl_remaining' = remaining
                /\ UNCHANGED <<wpoll, force_next_update, zones_meta_loaded,
                               offset_invalidated, away_invalidated,
                               update_interval>>
           ELSE IF merged.manual_poll # "-"
           THEN /\ zones_meta_loaded' = InvalidateMeta(merged.manual_poll)
                /\ offset_invalidated' = InvalidateOffsets(merged.manual_poll)
                /\ away_invalidated' = InvalidateAway(merged.manual_poll)
                /\ rl_remaining' = remaining
                /\ IF RefreshSkips(remaining, force_next_update)
                   THEN /\ wpc' = "get"
                        /\ batch' = <<>>
                        /\ update_interval' =
                              IntervalAfterSkip(SyncLimit(h), remaining)
                        /\ UNCHANGED <<wpoll, force_next_update>>
                   ELSE /\ wpc' = "poll"
                        /\ batch' = commands
                        /\ wpoll' = remaining
                        /\ force_next_update' = FALSE
                        /\ UNCHANGED update_interval
           ELSE /\ rl_remaining' =
                      IF IsThrottled(remaining)
                      THEN Max(0, remaining - Len(commands))
                      ELSE remaining
                /\ wpc' = "get"
                /\ batch' = <<>>
                /\ UNCHANGED <<wpoll, force_next_update, zones_meta_loaded,
                               offset_invalidated, away_invalidated,
                               update_interval>>

\* line 92: the first ready command is taken, the linger sleep begins
WorkerGet ==
    /\ wpc = "get"
    /\ api_queue # <<>>
    /\ batch' = Append(batch, Head(api_queue))
    /\ api_queue' = Tail(api_queue)
    /\ wpc' = "linger"
    /\ UNCHANGED <<action_queue, pending_timers, plan, coordVars,
                   sched, timerVars, resumeVars, pollVars, readVars, fetchVars,
                   queueHist, batchHist, quotaHist>>

\* lines 100-108: the linger sleep is over, the queue is drained into the
\* batch and _process_batch runs up to its first outbound call
WorkerDrain ==
    /\ wpc = "linger"
    /\ LET commands == batch \o api_queue
           calls == PlanOf(Merge(commands))
       IN  /\ api_queue' = <<>>
           /\ plan' = calls
           /\ bno' = bno + 1
           /\ blog' = <<>>
           /\ IF calls = <<>>
              THEN BatchTail(commands, hdr)
              ELSE /\ wpc' = AfterDrain
                   /\ batch' = commands
                   /\ UNCHANGED <<rl_limit, rl_remaining, wpoll,
                                  force_next_update, zones_meta_loaded,
                                  offset_invalidated, away_invalidated,
                                  update_interval>>
    /\ UNCHANGED <<action_queue, pending_timers, data, srv_remaining, hdr,
                   disable_when_throttled, is_polling_enabled, poll,
                   sched, timerVars, resumeVars, last_poll_cost, spoll,
                   rpoll, readVars, fetchVars,
                   queueHist, sent, failed_in, quotaHist>>

\* the overlay writes each command object has been carried by
SentAfter(call) ==
    LET ns == {call.overlays[i].n : i \in 1..Len(call.overlays)}
    IN  [n \in (DOMAIN sent) \cup ns |->
            Get(sent, n, 0) + (IF n \in ns THEN 1 ELSE 0)]

\* the outbound call the batch is waiting for returns (ok) or raises; the
\* batch goes on to its next call, or to its tail after the last one
WorkerCall(ok) ==
    /\ wpc = "process"
    /\ plan # <<>>
    /\ ok => srv_remaining > 0
    /\ LET call == Head(plan)
           rest == AfterCall(plan, ok)
           h == IF ok THEN srv_remaining - 1 ELSE hdr
       IN  /\ blog' = Append(blog, [call |-> call, ok |-> ok])
           /\ sent' = SentAfter(call)
           /\ failed_in' = IF ok \/ failed_in # 0 THEN failed_in ELSE bno
           /\ issued' = issued + Counted(ok)
           /\ srv_remaining' = IF ok THEN srv_remaining - 1 ELSE srv_remaining
           /\ hdr' = h
           /\ srv_zone_states' = VendorAfterCall(srv_zone_states, call, ok)
           /\ srv_offsets' = VendorOffsetsAfterCall(srv_offsets, call, ok)
           /\ plan' = rest
           /\ IF rest = <<>>
              THEN BatchTail(batch, h)
              ELSE UNCHANGED <<wpc, batch, rl_limit, rl_remaining, wpoll,
                               force_next_update, zones_meta_loaded,
                               offset_invalidated, away_invalidated,
                               update_interval>>
    /\ UNCHANGED <<action_queue, pending_timers, api_queue, data,
                   disable_when_throttled, is_polling_enabled, poll,
                   sched, timerVars, last_poll_cost, spoll, rpoll,
                   resumeVars, zone_states, optimistic, track_due,
                   offsets_cache, last_fetch, queueHist, bno, npolls,
                   nresets>>

\* lines 114-116: where the loop goes on after the sleep of its except
\* branch (top of the while loop), and where a loop would stand that left
\* on the error as it does on a cancellation
AfterErrorLeft == "left"
AfterError == "get"

\* line 116: the sleep of the except branch is over
WorkerWake ==
    /\ wpc = "sleep"
    /\ wpc' = AfterError
    /\ UNCHANGED <<action_queue, pending_timers, api_queue, batch, plan,
                   coordVars,
                   sched, timerVars,
                   resumeVars, pollVars, readVars, fetchVars, queueHist,
                   batchHist, quotaHist>>

\* the refresh of the batch's manual poll returns: async_refresh reports a
\* failure to the listeners and does not raise; line 109 clears the batch
WorkerPollEnd(r) ==
    /\ wpc = "poll"
    /\ RefreshEnd(r)
    /\ AfterFetch(r, wpoll)
    /\ wpoll' = -1
    /\ wpc' = "get"
    /\ batch' = <<>>
    /\ UNCHANGED <<action_queue, pending_timers, api_queue, plan,
                   disable_when_throttled, is_polling_enabled,
                   force_next_update, poll, spoll, rpoll,
                   sched, timerVars, resumeVars,
                   srv_zone_states, srv_offsets,
                   queueHist, batchHist,
                   npolls, nresets>>

(***************************************************************************)
(* Coordinator write operations (the caller-facing surface).               *)
(***************************************************************************)
\* get_capped_temperature
GetCappedTemperature(z, temperature) ==
    LET limit == IF ZoneType(z) = "HOT_WATER" THEN TEMP_MAX_HOT_WATER
                 ELSE IF ZoneType(z) = "HEATING" THEN TEMP_MAX_HEATING
                 ELSE TEMP_MAX_AC
    IN  Min(temperature, limit)

\* _build_overlay_data (overlay_type resolved from the zone's metadata)
BuildOverlayData(z, power, temperature, duration, overlay_mode) ==
    [type |-> ZoneType(z),
     power |-> power,
     temp |-> IF temperature # NoTemp /\ power = "ON"
              THEN GetCappedTemperature(z, temperature)
              ELSE NoTemp,
     term |-> IF overlay_mode = "next_block" THEN "NEXT_TIME_BLOCK"
              ELSE IF overlay_mode = "presence" THEN "TADO_MODE"
              ELSE IF overlay_mode = "timer" \/ duration # 0 THEN "TIMER"
              ELSE "MANUAL"]

\* the first loop of async_set_multiple_zone_overlays: an optimistic entry
\* for every zone
RECURSIVE OptimisticSetZones(_, _, _, _)
OptimisticSetZones(entries, zs, i, power) ==
    IF i > Len(zs) THEN entries
    ELSE OptimisticSetZones(
             OptimisticSetZone(entries, zs[i], TRUE, power, "-"),
             zs, i + 1, power)

\* async_set_multiple_zone_overlays: the optimistic entries first, then per
\* zone the payload is built, patched into the cache and queued as one
\* SET_OVERLAY command
RECURSIVE SetMultipleZoneOverlays(_, _, _, _, _, _, _)
SetMultipleZoneOverlays(S, zs, i, power, temperature, duration, mode) ==
    IF i > Len(zs) THEN S
    ELSE LET S0 == IF i = 1
                   THEN [S EXCEPT !.op = OptimisticSetZones(@, zs, 1, power)]
                   ELSE S
             d == BuildOverlayData(zs[i], power, temperature, duration, mode)
             S1 == [S0 EXCEPT !.zs = PatchZoneLocal(@, zs[i], d)]
         IN  SetMultipleZoneOverlays(
                 QueueCommand(S1, ZoneKey(zs[i]), "SET_OVERLAY", zs[i], d,
                              "-"),
                 zs, i + 1, power, temperature, duration, mode)

\* _execute_set_timer: with a temperature, one capped call per zone
RECURSIVE ExecuteSetTimer(_, _, _, _, _, _, _)
ExecuteSetTimer(S, zs, i, power, temperature, duration, mode) ==
    IF temperature = NoTemp
    THEN SetMultipleZoneOverlays(S, zs, 1, power, NoTemp, duration, mode)
    ELSE IF i > Len(zs) THEN S
    ELSE ExecuteSetTimer(
             SetMultipleZoneOverlays(S, <<zs[i]>>, 1, power,
                 GetCappedTemperature(zs[i], temperature), duration, mode),
             zs, i + 1, power, temperature, duration, mode)

pipeRest == <<api_queue, wpc, batch, plan, coordVars, sched, timerVars,
              resumeVars, pollVars,
              srv_zone_states, fetchVars, batchHist, quotaHist>>

\* the set_timer service
SetTimer(zs, power, temperature, duration, mode) ==
    /\ ncmds + Len(zs) <= MaxCmds
    /\ SetStage(ExecuteSetTimer(Stage, zs, 1, power, temperature, duration,
                                mode))
    /\ UNCHANGED pipeRest

\* async_set_zone_auto (refresh_after_resume off)
ZoneAutoStage(S, z) ==
    QueueCommand([S EXCEPT !.zs = PatchZoneResume(@, z),
                           !.op = OptimisticSetZone(@, z, FALSE, "-", "-")],
                 ZoneKey(z), "RESUME_SCHEDULE", z, NoData, "-")

SetZoneAuto(z) ==
    /\ ncmds < MaxCmds
    /\ SetStage(ZoneAutoStage(Stage, z))
    /\ UNCHANGED pipeRest

\* async_manual_poll
ManualPoll(scope) ==
    /\ ncmds < MaxCmds
    /\ SetStage(QueueCommand(Stage, <<"manual_poll_" \o scope, 0>>,
                             "MANUAL_POLL", 0, NoData, scope))
    /\ UNCHANGED pipeRest

\* async_set_presence_debounced, async_set_child_lock,
\* async_set_temperature_offset, async_set_away_temperature,
\* async_set_dazzle_mode, async_set_early_start,
\* async_set_open_window_detection, async_identify_device: each queues one
\* command of its type under its own key
KeyKind ==
    [SET_PRESENCE |-> "presence", SET_CHILD_LOCK |-> "child_lock",
     SET_OFFSET |-> "offset", SET_AWAY_TEMP |-> "away_temp",
     SET_DAZZLE |-> "dazzle", SET_EARLY_START |-> "early_start",
     SET_OPEN_WINDOW |-> "open_window", IDENTIFY |-> "identify"]

SetAttribute(t, id, val) ==
    /\ ncmds < MaxCmds
    /\ SetStage(QueueCommand(Stage,
                    <<KeyKind[t], IF t = "SET_PRESENCE" THEN 0 ELSE id>>,
                    t, id, NoData, val))
    /\ UNCHANGED pipeRest

(***************************************************************************)
(* The pipeline specification: zone writes and manual polls through the   *)
(* debounce stage and the worker, next to the scheduled poll.              *)
(***************************************************************************)
SchedIdle == [pc |-> "idle"]

\* __init__, lines 112-121 and 141: the update interval is the scan
\* interval, no refresh has run
NoPollYet ==
    /\ update_interval = ScanInterval
    /\ last_poll_cost = 0
    /\ spoll = -1
    /\ rpoll = -1

\* the configuration without auto quota, refresh after resume and reduced
\* polling logic: _schedule_reset_poll returns at once, no timer of the
\* coordinator is ever armed
NoTimers ==
    /\ reset_poll_unsub = "none"
    /\ resume_refresh_timer = "none"
    /\ rpc = "idle"
    /\ pause_window = FALSE
    /\ shutdown_done = FALSE
    /\ reset_fires = 0
    /\ reset_fetches = 0
    /\ moved_before = 0
    /\ resume_timers = <<>>
    /\ resume_hist = NoResumeCalls
    /\ NoPollYet

InitWith(dwt) ==
    /\ action_queue = EmptyMap
    /\ pending_timers = EmptyMap
    /\ api_queue = <<>>
    /\ wpc = "get"
    /\ batch = <<>>
    /\ plan = <<>>
    /\ data = "none"
    /\ rl_limit = 0
    /\ rl_remaining = 0
    /\ srv_remaining = DailyLimit
    /\ hdr = -1
    /\ disable_when_throttled = dwt
    /\ is_polling_enabled = TRUE
    /\ force_next_update = FALSE
    /\ poll = -1
    /\ wpoll = -1
    /\ zones_meta_loaded = FALSE
    /\ offset_invalidated = FALSE
    /\ away_invalidated = FALSE
    /\ sched = SchedIdle
    /\ ncmds = 0
    /\ burst = EmptyMap
    /\ placed = EmptyMap
    /\ age = EmptyMap
    /\ spread = EmptyMap
    /\ sent = EmptyMap
    /\ blog = <<>>
    /\ bno = 0
    /\ failed_in = 0
    /\ issued = 0
    /\ npolls = 0
    /\ nresets = 0
    /\ NoTimers
    /\ NoZonesFollowed
    /\ NoDevicesFollowed

Timers == Tick \/ \E k \in DOMAIN pending_timers : MoveToWorker(k)

Worker ==
    \/ WorkerGet
    \/ WorkerDrain
    \/ \E ok \in BOOLEAN : WorkerCall(ok)
    \/ WorkerWake
    \/ \E r \in RefreshOutcomes : WorkerPollEnd(r)

ScheduledPoll(bound) ==
    \/ PollBegin(bound)
    \/ \E r \in RefreshOutcomes : PollEnd(r)

\* the default configuration: polling is not disabled when throttled
Init == InitWith(FALSE)

Next ==
    \/ \E z \in ZoneIds, t \in Temps : SetTimer(<<z>>, "ON", t, 0, "-")
    \/ \E z \in ZoneIds : SetZoneAuto(z)
    \/ ManualPoll("all")
    \/ Timers
    \/ Worker
    \/ ScheduledPoll(MaxPolls)

Spec == Init /\ [][Next]_vars

(***************************************************************************)
(* The batch specification: the first refresh has succeeded, and commands  *)
(* of every kind, queued under distinct keys, are due. Their timers fire   *)
(* in any order while the worker takes, merges and dispatches batches.     *)
(***************************************************************************)
\* commands due at the start of a batch run
MaxBatch == 3
BatchZoneIds == {1, 2, 3}
KindSeq ==
    <<"SET_PRESENCE", "SET_CHILD_LOCK", "SET_OFFSET", "SET_AWAY_TEMP",
      "SET_DAZZLE", "SET_EARLY_START", "SET_OPEN_WINDOW", "IDENTIFY">>
DeviceKey(i) == <<KeyKind[KindSeq[i]], IF i = 1 THEN 0 ELSE 1>>
DeviceCommand(i) ==
    Command(KindSeq[i], IF i = 1 THEN 0 ELSE 1, NoData, "on", i)
ZoneCommand(z, resume) ==
    IF resume
    THEN Command("RESUME_SCHEDULE", z, NoData, "-", Len(KindSeq) + z)
    ELSE Command("SET_OVERLAY", z, BuildOverlayData(z, "ON", 21, 0, "-"),
                 "-", Len(KindSeq) + z)
BatchKeys ==
    {DeviceKey(i) : i \in 1..Len(KindSeq)} \cup {ZoneKey(z) : z \in BatchZoneIds}
DueCommand(k, R) ==
    IF k[1] = "zone" THEN ZoneCommand(k[2], k[2] \in R)
    ELSE DeviceCommand(CHOOSE i \in 1..Len(KindSeq) : DeviceKey(i) = k)

BatchInit ==
    \E K \in SUBSET BatchKeys, R \in SUBSET BatchZoneIds :
        /\ Cardinality(K) \in 1..MaxBatch
        /\ \A z \in R : ZoneKey(z) \in K
        /\ action_queue = [k \in K |-> DueCommand(k, R)]
        /\ pending_timers = [k \in K |-> 0]
        /\ api_queue = <<>>
        /\ wpc = "get"
        /\ batch = <<>>
        /\ plan = <<>>
        /\ data = "ok"
        /\ rl_limit = DailyLimit
        /\ rl_remaining = DailyLimit - FetchCalls(FALSE, FALSE, FALSE)
        /\ srv_remaining = DailyLimit - FetchCalls(FALSE, FALSE, FALSE)
        /\ hdr = DailyLimit - FetchCalls(FALSE, FALSE, FALSE)
        /\ disable_when_throttled = FALSE
        /\ is_polling_enabled = TRUE
        /\ force_next_update = FALSE
        /\ poll = -1
        /\ wpoll = -1
        /\ zones_meta_loaded = TRUE
        /\ offset_invalidated = FALSE
        /\ away_invalidated = FALSE
        /\ sched = SchedIdle
        /\ ncmds = Cardinality(K)
        /\ burst = [k \in K |-> <<DueCommand(k, R)>>]
        /\ placed = [k \in K |-> <<>>]
        /\ age = [k \in K |-> DebounceTicks]
        /\ spread = [k \in K |-> FALSE]
        /\ sent = EmptyMap
        /\ blog = <<>>
        /\ bno = 0
        /\ failed_in = 0
        /\ issued = FetchCalls(FALSE, FALSE, FALSE)
        /\ npolls = 1
        /\ nresets = 0
        /\ NoTimers
        /\ NoZonesFollowed
        /\ NoDevicesFollowed

BatchNext ==
    \/ \E k \in DOMAIN pending_timers : MoveToWorker(k)
    \/ WorkerGet
    \/ WorkerDrain
    \/ \E ok \in BOOLEAN : WorkerCall(ok)

BatchSpec == BatchInit /\ [][BatchNext]_vars

(***************************************************************************)
(* The scheduler specification: the rate limit fields, the configuration   *)
(* and the clock are drawn, one interval computation runs.                 *)
(***************************************************************************)
\* reduced windows (minutes of the day): 22:00-06:00 and 01:00-05:00
Windows == {[start |-> 1320, end |-> 360], [start |-> 60, end |-> 300]}
\* the clock: quarter hours before the reset
QuartersToReset == {1, 5, 23, 48, 75, 91, 96}
\* rate_limit.limit and rate_limit.remaining: before the first response, a
\* small daily limit around the throttle threshold, and two larger ones
RateLimits ==
    {<<0, 0>>}
    \cup {<<DailyLimit, r>> :
             r \in {0, ThrottleThreshold, ThrottleThreshold + 1, DailyLimit}}
    \cup {<<100, r>> : r \in {40, 100}}
    \cup {<<2000, 2000>>}
\* the configured jitter percent
JitterPercents == {0, 10}
\* the daily background cost estimate_daily_reserved_cost reports
BackgroundCosts == {0, 2, 50}
SchedInputs ==
    [pc : {"input"}, result : {NoInterval}, update : {NoInterval},
     now : {(ResetOfDay + SECONDS_PER_DAY - k * QuarterHour) % SECONDS_PER_DAY :
                k \in QuartersToReset},
     reduced : BOOLEAN, conf_ok : BOOLEAN,
     start : {w.start : w \in Windows}, end : {w.end : w \in Windows},
     interval : {0, 1800}, pct : {0, 50}, proxy : BOOLEAN, base : {0, 600},
     bg : BackgroundCosts, cost : {1, 2}, jitter : JitterPercents]

SchedInit ==
    /\ \E rl \in RateLimits : rl_limit = rl[1] /\ rl_remaining = rl[2]
    /\ disable_when_throttled \in BOOLEAN
    /\ sched \in {c \in SchedInputs :
                      [start |-> c.start, end |-> c.end] \in Windows}
    /\ action_queue = EmptyMap
    /\ pending_timers = EmptyMap
    /\ api_queue = <<>>
    /\ wpc = "get"
    /\ batch = <<>>
    /\ plan = <<>>
    /\ data = IF rl_limit = 0 THEN "none" ELSE "ok"
    /\ srv_remaining = IF rl_limit = 0 THEN DailyLimit ELSE rl_remaining
    /\ hdr = IF rl_limit = 0 THEN -1 ELSE rl_remaining
    /\ is_polling_enabled = TRUE
    /\ force_next_update = FALSE
    /\ poll = -1
    /\ wpoll = -1
    /\ zones_meta_loaded = (rl_limit # 0)
    /\ offset_invalidated = FALSE
    /\ away_invalidated = FALSE
    /\ ncmds = 0
    /\ burst = EmptyMap
    /\ placed = EmptyMap
    /\ age = EmptyMap
    /\ spread = EmptyMap
    /\ sent = EmptyMap
    /\ blog = <<>>
    /\ bno = 0
    /\ failed_in = 0
    /\ issued = rl_limit - rl_remaining
    /\ npolls = IF rl_limit = 0 THEN 0 ELSE 1
    /\ nresets = 0
    /\ NoTimers
    /\ NoZonesFollowed
    /\ NoDevicesFollowed

\* _adjust_interval_for_auto_quota
ComputeInterval ==
    /\ sched.pc = "input"
    /\ LET calculated == CalculateAutoQuotaInterval(
                              sched, rl_limit, rl_remaining,
                              disable_when_throttled)
       IN  \E u \in AdjustedIntervals(sched, calculated) :
               sched' = [sched EXCEPT !.pc = "done",
                                      !.result = calculated,
                                      !.update = u]
    /\ UNCHANGED <<mgrVars, coordVars, timerVars,
                   resumeVars, pollVars, readVars, fetchVars,
                   queueHist, batchHist,
                   quotaHist>>

SchedNext == ComputeInterval

SchedSpec == SchedInit /\ [][SchedNext]_vars

C11_NoJitterOnSuspend ==
    (/\ sched.pc = "done"
     /\ sched.proxy
     /\ rl_limit > 0
     /\ IsThrottled(rl_remaining)
     /\ disable_when_throttled) =>
        sched.update = Max(SECONDS_PER_HOUR, GetSecondsUntilReset(sched.now))

\* the claim's case: proxy and a jitter percent configured, suspended until
\* a reset that is hours away, and the draw of the jitter happens to be zero
C11_Witness ==
    /\ sched.pc = "done"
    /\ sched.proxy
    /\ sched.jitter > 0
    /\ rl_limit > 0
    /\ IsThrottled(rl_remaining)
    /\ disable_when_throttled
    /\ GetSecondsUntilReset(sched.now) > SECONDS_PER_HOUR
    /\ sched.update = GetSecondsUntilReset(sched.now)

\* the budget _calculate_auto_quota_interval works with in the state
SchedBudget ==
    GetRemainingPollingBudget(rl_limit, rl_remaining, ThrottleThreshold,
                              sched.bg, sched.pct,
                              GetSecondsUntilReset(sched.now))
\* the floor of the adaptive intervals, line 531-535
MinFloor == IF sched.proxy THEN MIN_PROXY_INTERVAL_S ELSE MIN_AUTO_QUOTA_INTERVAL_S
\* the computation went past rules 1 and 2 with auto quota on and a budget
\* left: it is rule 4 or rule 5 that gave the interval
AdaptiveCase ==
    /\ sched.pc = "done"
    /\ rl_limit > 0
    /\ ~IsThrottled(rl_remaining)
    /\ ~(sched.reduced /\ sched.conf_ok /\ IsInReducedWindow(sched.now, sched))
    /\ sched.pct > 0
    /\ SchedBudget > 0
\* the interval came from _calculate_weighted_interval with a window
\* configuration present
WeightedCase == AdaptiveCase /\ sched.reduced /\ sched.conf_ok

\* C14: the weighted interval for normal hours is never larger than the
\* configured reduced interval when that is above 0 (never larger than one
\* hour when it is 0), and never smaller than min_floor.
C14_WeightedWithinCap ==
    WeightedCase =>
        /\ sched.result <= (IF sched.interval > 0 THEN sched.interval
                            ELSE SECONDS_PER_HOUR)
        /\ sched.result >= MinFloor

\* a weighted interval strictly between the floor and the reduced interval
C14_Witness ==
    /\ WeightedCase
    /\ sched.interval > 0
    /\ sched.result > MinFloor
    /\ sched.result < sched.interval

\* rule 2 with a 0 interval decided: not throttled, reduced logic on and the
\* clock inside the configured window
PauseCase ==
    /\ sched.pc = "done"
    /\ ~IsThrottled(rl_remaining)
    /\ sched.reduced /\ sched.conf_ok
    /\ IsInReducedWindow(sched.now, sched)
    /\ sched.interval = 0
\* the seconds from the clock, inside the window, to the window's end
SecondsToWindowEnd ==
    LET tod == sched.now % SECONDS_PER_DAY
        end == sched.end * 60
    IN  IF tod <= end THEN end - tod ELSE end + SECONDS_PER_DAY - tod
Distance(a, b) == IF a >= b THEN a - b ELSE b - a

\* C15: not throttled and inside a reduced window whose interval is 0, the
\* computed interval equals, within one search step of a quarter hour, the
\* seconds remaining until the window ends, and is never below the minimum
\* interval.
C15_PauseUntilWindowEnd ==
    PauseCase =>
        /\ Distance(sched.result, SecondsToWindowEnd) <= 15 * 60
        /\ sched.result >= MIN_AUTO_QUOTA_INTERVAL_S

\* C15 as the code has it: the search also ends at the next daily reset,
\* so the interval is within one search step of the seconds until the
\* window ends or until the reset, whichever is less.
C15_PauseUntilWindowEndOrReset ==
    PauseCase =>
        /\ Distance(sched.result,
                    Min(SecondsToWindowEnd, GetSecondsUntilReset(sched.now)))
               <= 15 * 60
        /\ sched.result >= MIN_AUTO_QUOTA_INTERVAL_S

\* inside the window 01:00-05:00 with hours to go: the window's end comes
\* before the reset and the interval reaches it
C15_Witness ==
    /\ PauseCase
    /\ SecondsToWindowEnd > SECONDS_PER_HOUR
    /\ SecondsToWindowEnd < GetSecondsUntilReset(sched.now)
    /\ sched.result >= SecondsToWindowEnd

\* seconds_until_reset / (remaining_budget / predicted_cost), rounded down:
\* the budget is a multiple of the quarter hours left, which cancel
EvenSpread ==
    LET q == GetSecondsUntilReset(sched.now) \div QuarterHour
    IN  (QuarterHour * BudgetUnit * sched.cost) \div (SchedBudget \div q)

\* C16: with auto quota on, the reduced polling logic off, the budget not
\* throttled and a positive remaining budget, the interval is
\* seconds_until_reset / (remaining_budget / predicted_cost) clamped to
\* [min_floor, 3600], where min_floor is MIN_PROXY_INTERVAL_S with a proxy
\* and MIN_AUTO_QUOTA_INTERVAL_S without.
C16_EvenSpreadClamped ==
    (AdaptiveCase /\ ~sched.reduced) =>
        sched.result = Max(MinFloor, Min(SECONDS_PER_HOUR, EvenSpread))

\* a proxy, and a budget so large that the even spread is below the proxy's
\* floor and above the floor without a proxy
C16_Witness ==
    /\ AdaptiveCase
    /\ ~sched.reduced
    /\ sched.proxy
    /\ EvenSpread > MIN_AUTO_QUOTA_INTERVAL_S
    /\ EvenSpread < MIN_PROXY_INTERVAL_S
    /\ sched.result = MIN_PROXY_INTERVAL_S

\* the computation went past rules 1 and 2 with auto quota on and found
\* no budget left for a poll
NoBudgetCase ==
    /\ sched.pc = "done"
    /\ rl_limit > 0
    /\ ~IsThrottled(rl_remaining)
    /\ ~(sched.reduced /\ sched.conf_ok /\ IsInReducedWindow(sched.now, sched))
    /\ sched.pct > 0
    /\ SchedBudget <= 0

\* C17: with auto quota on and the budget not throttled, when the remaining
\* budget allows no poll (remaining_polls <= 0) the interval falls back to
\* one hour.
C17_NoBudgetOneHour ==
    NoBudgetCase => sched.result = SECONDS_PER_HOUR

\* the computation went past rules 1 and 2 and found auto quota off
AutoQuotaOffCase ==
    /\ sched.pc = "done"
    /\ ~IsThrottled(rl_remaining)
    /\ ~(sched.reduced /\ sched.conf_ok /\ IsInReducedWindow(sched.now, sched))
    /\ sched.pct <= 0

\* C18: when the budget is not throttled, no reduced window is active and
\* auto_quota_percent is 0 or less, the update interval that is set is the
\* base scan interval, or none when the base scan interval is 0.
C18_AutoQuotaOffBaseInterval ==
    AutoQuotaOffCase =>
        sched.update = (IF sched.base > 0 THEN sched.base ELSE NoInterval)

\* auto quota off behind a proxy with jitter, a base scan interval
\* configured: the base scan interval is what is set
C18_Witness ==
    /\ AutoQuotaOffCase
    /\ sched.proxy
    /\ sched.jitter > 0
    /\ sched.base > 0
    /\ sched.update = sched.base

\* the budget of the state's rate limit and clock for another background
\* cost and another percent
BudgetFor(bg, pct) ==
    GetRemainingPollingBudget(rl_limit, rl_remaining, ThrottleThreshold,
                              bg, pct, GetSecondsUntilReset(sched.now))
OtherBackgroundCosts == BackgroundCosts \cup {1, 10, 100}
OtherPercents == {0, 25, 50, 100}

\* C19: the remaining budget is non-increasing in background_cost_24h,
\* non-decreasing in auto_quota_percent, and never negative.
C19_BudgetMonotone ==
    sched.pc = "done" =>
        /\ SchedBudget >= 0
        /\ \A bg \in OtherBackgroundCosts :
               /\ bg >= sched.bg => BudgetFor(bg, sched.pct) <= SchedBudget
               /\ bg <= sched.bg => BudgetFor(bg, sched.pct) >= SchedBudget
        /\ \A pct \in OtherPercents :
               /\ pct >= sched.pct => BudgetFor(sched.bg, pct) >= SchedBudget
               /\ pct <= sched.pct => BudgetFor(sched.bg, pct) <= SchedBudget
               /\ BudgetFor(sched.bg, pct) >= 0

\* the day half over and calls used beyond the threshold: the budget the
\* scheduler worked with is strictly below that of a smaller background
\* cost and strictly below that of a larger percent
C19_Witness ==
    /\ AdaptiveCase
    /\ sched.bg > 0
    /\ rl_limit - rl_remaining > ThrottleThreshold
    /\ GetSecondsUntilReset(sched.now) < SECONDS_PER_DAY
    /\ BudgetFor(0, sched.pct) > SchedBudget
    /\ BudgetFor(sched.bg, 100) > SchedBudget

(***************************************************************************)
(* The clock specification: the Berlin clock is drawn, every minute of the *)
(* day and the seconds around the reset instants, and the two next-reset   *)
(* functions are called.                                                   *)
(***************************************************************************)
NoInstant == -1
ClockNows ==
    {60 * mi : mi \in 0..(24 * 60 - 1)}
    \cup {ResetOfDay - 1, ResetOfDay + 1, SECONDS_PER_DAY - 1,
          SafeWindowMidpoint - 1, SafeWindowMidpoint + 1}

ClockInit ==
    /\ \E n \in ClockNows :
           sched = [pc |-> "clock", now |-> n, next_reset |-> NoInstant,
                    qm_next_reset |-> NoInstant]
    /\ action_queue = EmptyMap
    /\ pending_timers = EmptyMap
    /\ api_queue = <<>>
    /\ wpc = "get"
    /\ batch = <<>>
    /\ plan = <<>>
    /\ data = "none"
    /\ rl_limit = 0
    /\ rl_remaining = 0
    /\ srv_remaining = DailyLimit
    /\ hdr = -1
    /\ disable_when_throttled = TRUE
    /\ is_polling_enabled = TRUE
    /\ force_next_update = FALSE
    /\ poll = -1
    /\ wpoll = -1
    /\ zones_meta_loaded = FALSE
    /\ offset_invalidated = FALSE
    /\ away_invalidated = FALSE
    /\ ncmds = 0
    /\ burst = EmptyMap
    /\ placed = EmptyMap
    /\ age = EmptyMap
    /\ spread = EmptyMap
    /\ sent = EmptyMap
    /\ blog = <<>>
    /\ bno = 0
    /\ failed_in = 0
    /\ issued = 0
    /\ npolls = 0
    /\ nresets = 0
    /\ NoTimers
    /\ NoZonesFollowed
    /\ NoDevicesFollowed

\* a call of _get_next_reset_time
NextResetCall ==
    /\ sched.pc = "clock"
    /\ sched.next_reset = NoInstant
    /\ sched' = [sched EXCEPT !.next_reset = GetNextResetTime(sched.now)]
    /\ UNCHANGED <<mgrVars, coordVars, timerVars,
                   resumeVars, pollVars, readVars, fetchVars,
                   queueHist, batchHist,
                   quotaHist>>

\* a call of quota_math.get_next_reset_time
QuotaMathNextResetCall ==
    /\ sched.pc = "clock"
    /\ sched.qm_next_reset = NoInstant
    /\ sched' = [sched EXCEPT
                    !.qm_next_reset = QuotaMathNextResetTime(sched.now)]
    /\ UNCHANGED <<mgrVars, coordVars, timerVars,
                   resumeVars, pollVars, readVars, fetchVars,
                   queueHist, batchHist,
                   quotaHist>>

ClockNext == NextResetCall \/ QuotaMathNextResetCall

ClockSpec == ClockInit /\ [][ClockNext]_vars

QuotaInit == InitWith(TRUE)

QuotaNext ==
    \/ SetTimer(<<1>>, "ON", 21, 0, "-")
    \/ ManualPoll("all")
    \/ Timers
    \/ Worker
    \/ ScheduledPoll(MaxQuotaPolls)
    \/ DailyReset

QuotaSpec == QuotaInit /\ [][QuotaNext]_vars

\* C3: between two daily resets the remote calls the system issues
\* (scheduled polls, manual polls and write batches together) never exceed
\* the daily limit.
C3_WithinDailyLimit == issued <= DailyLimit

(***************************************************************************)
(* Properties of the debounce stage.                                       *)
(***************************************************************************)
\* C1: of a burst of queue_command calls for one key, each arriving while
\* the timer of the previous one has not fired, nothing is on the ready
\* queue while the timer runs, and once it has fired exactly one command
\* has been placed there: the last one of the burst.
C1_LastWriteWins ==
    \A k \in DOMAIN burst :
        IF Has(pending_timers, k)
        THEN placed[k] = <<>>
        ELSE /\ Len(placed[k]) = 1
             /\ placed[k][1].cmd = Last(burst[k])

\* a burst of three calls for one key has been collapsed and placed
C1_Witness ==
    \E k \in DOMAIN burst :
        /\ Len(burst[k]) = 3
        /\ ~Has(pending_timers, k)
        /\ Len(placed[k]) = 1
        /\ placed[k][1].cmd.n = burst[k][3].n

\* C8: whatever reaches the ready queue for a key does so no earlier than
\* the full debounce time after the latest queue_command for that key.
C8_FullDelayAfterLastWrite ==
    \A k \in DOMAIN placed :
        \A i \in 1..Len(placed[k]) : placed[k][i].age >= DebounceTicks

\* a burst whose calls were spread over time (a later call came after the
\* timer of the earlier one had started to run down) has been placed
C8_Witness ==
    \E k \in DOMAIN placed :
        /\ spread[k]
        /\ Len(burst[k]) >= 2
        /\ placed[k] # <<>>

\* the calls of the burst are all overlay writes of set_timer
OverlayBurst(k) ==
    /\ k[1] = "zone"
    /\ Len(burst[k]) >= 2
    /\ \A i \in 1..Len(burst[k]) : burst[k][i].t = "SET_OVERLAY"

\* C2: when set_timer is called several times for one zone within one
\* debounce window, the remote API receives exactly one overlay write for
\* that zone, with the temperature of the last call: no earlier call of
\* the burst is ever written, and the last one is written at most once.
C2_OneOverlayWritePerBurst ==
    \A k \in DOMAIN burst :
        OverlayBurst(k) =>
            /\ \A i \in 1..(Len(burst[k]) - 1) : Get(sent, burst[k][i].n, 0) = 0
            /\ Get(sent, Last(burst[k]).n, 0) <= 1

\* three set_timer calls for one zone with 21, 22, 23 in one window, and
\* an overlay write that carried the 23 of the last call
C2_Witness ==
    \E k \in DOMAIN burst :
        /\ OverlayBurst(k)
        /\ Len(burst[k]) = 3
        /\ \A i \in 1..3 : burst[k][i].data.temp = 20 + i
        /\ Get(sent, burst[k][3].n, 0) = 1
        /\ blog # <<>>
        /\ Last(blog).call.api = "set_all_zones_overlay"
        /\ \E j \in 1..Len(Last(blog).call.overlays) :
              /\ Last(blog).call.overlays[j].id = k[2]
              /\ Last(blog).call.overlays[j].data.temp = 23

(***************************************************************************)
(* Properties of the worker.                                               *)
(***************************************************************************)
BlogCalls == [i \in 1..Len(blog) |-> blog[i].call]
IsPrefix(s, t) == Len(s) <= Len(t) /\ SubSeq(t, 1, Len(s)) = s

\* outside _process_batch no outbound call is pending; inside, the calls
\* made and the calls to make are those of the one batch being processed
OneBatchInside ==
    /\ wpc # "process" => plan = <<>>
    /\ wpc = "process" =>
          /\ plan # <<>>
          /\ BlogCalls \o plan = PlanOf(Merge(batch))

\* while a batch is inside _process_batch it takes no further command:
\* what becomes ready is appended to the ready queue and stays there
ReadyCommandsWait ==
    wpc = "process" =>
        /\ batch' = batch \/ wpc' # "process"
        /\ IsPrefix(api_queue, api_queue')
        /\ bno' = bno

\* C4: the worker processes batches strictly one at a time: never two
\* batches inside _process_batch, every outbound call of a batch is over
\* before the next batch starts, and commands that become ready meanwhile
\* wait in the ready queue for a later batch.
C4_OneBatchAtATime == []OneBatchInside /\ [][ReadyCommandsWait]_vars

\* a command became ready while a batch had made a call and has more to make
C4_Witness ==
    /\ wpc = "process"
    /\ blog # <<>>
    /\ api_queue # <<>>

\* whatever the outcome of an outbound call, the calls made and the calls
\* still to make remain those of the whole batch
AllAttempted ==
    wpc = "process" => BlogCalls' \o plan' = PlanOf(Merge(batch))

\* a failed call leaves the batch at its next call or, after the last one,
\* the loop back at its queue get with the batch cleared
WorkerGoesOn ==
    (wpc = "process" /\ blog' # blog /\ ~Last(blog').ok) =>
        \/ wpc' = "process" /\ plan' # <<>> /\ batch' = batch
        \/ wpc' = "get" /\ plan' = <<>> /\ batch' = <<>>

\* C5: when an outbound sub-action of a batch fails (presence, child lock,
\* offset, away temperature, dazzle, early start, open window, identify,
\* bulk resume, bulk overlay), every other sub-action of the batch is
\* still attempted and the worker goes on to later batches.
C5_FailureIsolated == [][AllAttempted /\ WorkerGoesOn]_vars

\* an earlier batch had a failed call; in the batch now processed the first
\* call failed and the second was made all the same
C5_Witness ==
    /\ failed_in >= 1
    /\ bno > failed_in
    /\ Len(blog) >= 2
    /\ ~blog[1].ok
    /\ blog[2].ok

IsResetCall(c) == c.api = "reset_all_zones_overlay"
IsSetCall(c) == c.api = "set_all_zones_overlay"

\* C6: a batch whose merged zone actions hold N >= 1 resumes and M >= 1
\* overlays issues exactly two zone write calls, one reset_all_zones_overlay
\* with all N zone ids and one set_all_zones_overlay with all M overlays;
\* with N = 0 or M = 0 the corresponding call is not made.
C6_TwoBulkCalls ==
    wpc = "process" =>
        LET zones == Merge(batch).zones
            resumes == SelectSeq(zones, IsResume)
            overlays == SelectSeq(zones, IsOverlay)
            resets == SelectSeq(BlogCalls \o plan, IsResetCall)
            sets == SelectSeq(BlogCalls \o plan, IsSetCall)
        IN  /\ Len(resets) = IF Len(resumes) >= 1 THEN 1 ELSE 0
            /\ Len(sets) = IF Len(overlays) >= 1 THEN 1 ELSE 0
            /\ Len(resumes) >= 1 =>
                  /\ Len(resets[1].zones) = Len(resumes)
                  /\ \A i \in 1..Len(resumes) : resets[1].zones[i] = resumes[i].id
            /\ Len(overlays) >= 1 =>
                  /\ Len(sets[1].overlays) = Len(overlays)
                  /\ \A i \in 1..Len(overlays) :
                        /\ sets[1].overlays[i].id = overlays[i].id
                        /\ sets[1].overlays[i].data = overlays[i].data

\* one zone to resume and two to overlay: the reset call has been made
\* with the one id, the set call with both overlays is the one left
C6_Witness ==
    /\ wpc = "process"
    /\ Len(SelectSeq(Merge(batch).zones, IsResume)) = 1
    /\ Len(SelectSeq(Merge(batch).zones, IsOverlay)) = 2
    /\ Len(blog) = 1
    /\ IsResetCall(blog[1].call)
    /\ Len(blog[1].call.zones) = 1
    /\ Len(plan) = 1
    /\ IsSetCall(plan[1])
    /\ Len(plan[1].overlays) = 2

IsZoneCommand(c) == c.t \in {"SET_OVERLAY", "RESUME_SCHEDULE"}
ZoneCommandIndexes(z) ==
    {i \in 1..Len(batch) : IsZoneCommand(batch[i]) /\ batch[i].id = z}
SetMax(S) == CHOOSE x \in S : \A y \in S : y <= x

\* C7: merging the batch in submission order gives, for every zone, the
\* payload of the last command of the batch for that zone, none when that
\* command is a resume; so no zone is in both the bulk resume and the bulk
\* overlay call of the batch.
C7_LastCommandWins ==
    wpc = "process" =>
        /\ \A z \in ZoneIds :
              LET is == ZoneCommandIndexes(z)
                  merged == Merge(batch).zones
                  at == IndexOf(merged, z, 1)
              IN  /\ (is = {}) <=> (at = 0)
                  /\ is # {} =>
                        LET last == batch[SetMax(is)]
                        IN  /\ merged[at].n = last.n
                            /\ merged[at].data =
                                  IF last.t = "RESUME_SCHEDULE" THEN NoData
                                  ELSE last.data
        /\ LET calls == BlogCalls \o plan
           IN  \A i, j \in 1..Len(calls) :
                  IsResetCall(calls[i]) /\ IsSetCall(calls[j]) =>
                      \A a \in 1..Len(calls[i].zones),
                         b \in 1..Len(calls[j].overlays) :
                          calls[i].zones[a] # calls[j].overlays[b].id

\* the batch [SetOverlay(1, A), ResumeSchedule(1), SetOverlay(2, B)]:
\* zone 1 is resumed, zone 2 gets B
C7_Witness ==
    /\ wpc = "process"
    /\ Len(batch) = 3
    /\ batch[1].t = "SET_OVERLAY" /\ batch[1].id = 1
    /\ batch[2].t = "RESUME_SCHEDULE" /\ batch[2].id = 1
    /\ batch[3].t = "SET_OVERLAY" /\ batch[3].id = 2
    /\ batch[1].data # batch[3].data
    /\ Len(BlogCalls \o plan) = 2
    /\ (BlogCalls \o plan)[1].zones = <<1>>
    /\ Len((BlogCalls \o plan)[2].overlays) = 1
    /\ (BlogCalls \o plan)[2].overlays[1].id = 2
    /\ (BlogCalls \o plan)[2].overlays[1].data = batch[3].data

(***************************************************************************)
(* The lifecycle specification: auto quota and refresh after resume are on *)
(* and the daily reset timer is armed by __init__. Writes and resumes of   *)
(* one zone, the scheduled poll, the two timers of the coordinator and its *)
(* shutdown.                                                               *)
(***************************************************************************)
\* cancel() of the timer the handle holds, if it holds one: the callback
\* scheduled last leaves the loop
CancelResumeTimer(handle, timers) ==
    IF handle # "none" /\ timers # <<>>
    THEN SubSeq(timers, 1, Len(timers) - 1)
    ELSE timers

\* _schedule_resume_refresh: the loop's resume callbacks afterwards
ScheduleResumeRefreshNoCancel(handle, timers) ==
    Append(timers, ResumeRefreshDelayTicks)
ScheduleResumeRefresh(handle, timers) ==
    Append(CancelResumeTimer(handle, timers), ResumeRefreshDelayTicks)

\* async_set_zone_auto with refresh_after_resume on: the resume is queued and
\* _schedule_resume_refresh restarts the grace timer
SetZoneAutoWithRefresh(z) ==
    /\ ncmds < MaxCmds
    /\ SetStage(ZoneAutoStage(Stage, z))
    /\ resume_refresh_timer' = "pending"
    /\ resume_timers' = ScheduleResumeRefresh(resume_refresh_timer,
                                              resume_timers)
    /\ resume_hist' = [since |-> 0, calls |-> resume_hist.calls + 1]
    /\ UNCHANGED <<api_queue, wpc, batch, plan, coordVars, sched,
                   reset_poll_unsub, rpc, pause_window, shutdown_done,
                   reset_fires, reset_fetches, moved_before, pollVars,
                   srv_zone_states, fetchVars, batchHist, quotaHist>>

\* _execute_resume_refresh: the grace timer fires and queues a zone poll
ExecuteResumeRefresh ==
    /\ ncmds < MaxCmds
    /\ \E i \in 1..Len(resume_timers) :
          /\ resume_timers[i] = 0
          /\ resume_timers' = SubSeq(resume_timers, 1, i - 1)
                                \o SubSeq(resume_timers, i + 1,
                                          Len(resume_timers))
    /\ resume_refresh_timer' = "none"
    /\ resume_hist' = NoResumeCalls
    /\ SetStage(QueueCommand(Stage, <<"refresh_after_resume", 0>>,
                             "MANUAL_POLL", 0, NoData, "zone"))
    /\ UNCHANGED <<api_queue, wpc, batch, plan, coordVars, sched,
                   reset_poll_unsub, rpc, pause_window, shutdown_done,
                   reset_fires, reset_fetches, moved_before, pollVars,
                   srv_zone_states, fetchVars, batchHist, quotaHist>>

\* _schedule_reset_poll with auto quota on: a pending timer is cancelled and
\* a new one is armed for the next reset instant
ScheduleResetPoll(unsub) == "pending"

\* the reset timer fires and _on_reset_poll runs up to its await: the force
\* flag is set and async_refresh enters _async_update_data, which either
\* returns the cached data, after which the timer is armed again, or starts
\* the fetch
OnResetPoll ==
    /\ reset_poll_unsub = "pending"
    /\ rpc = "idle"
    /\ reset_fires < MaxResets
    /\ reset_fires' = reset_fires + 1
    /\ IF RefreshSkips(rl_remaining, TRUE)
       THEN /\ force_next_update' = TRUE
            /\ reset_poll_unsub' = ScheduleResetPoll("done")
            /\ update_interval' = IntervalAfterSkip(rl_limit, rl_remaining)
            /\ UNCHANGED <<rpc, rpoll, reset_fetches>>
       ELSE /\ force_next_update' = FALSE
            /\ rpc' = "refresh"
            /\ rpoll' = rl_remaining
            /\ reset_fetches' = reset_fetches + 1
            /\ reset_poll_unsub' = "done"
            /\ UNCHANGED update_interval
    /\ UNCHANGED <<mgrVars, data, rl_limit, rl_remaining, srv_remaining, hdr,
                   disable_when_throttled, is_polling_enabled, poll, wpoll,
                   zones_meta_loaded, offset_invalidated, away_invalidated,
                   sched, resume_refresh_timer, pause_window, shutdown_done,
                   moved_before, resumeVars, last_poll_cost, spoll,
                   readVars, fetchVars, queueHist, batchHist,
                   quotaHist>>

\* the fetch of the reset poll returns or raises; async_refresh does not
\* raise, and _schedule_reset_poll arms the timer for the following reset
OnResetPollEnd(r) ==
    /\ rpc = "refresh"
    /\ RefreshEnd(r)
    /\ AfterFetch(r, rpoll)
    /\ rpoll' = -1
    /\ rpc' = "idle"
    /\ reset_poll_unsub' = ScheduleResetPoll(reset_poll_unsub)
    /\ UNCHANGED <<mgrVars, disable_when_throttled, is_polling_enabled,
                   force_next_update, poll, wpoll, sched,
                   resume_refresh_timer, pause_window, shutdown_done,
                   reset_fires, reset_fetches, moved_before, resumeVars,
                   spoll,
                   
                   srv_zone_states, srv_offsets, queueHist, batchHist,
                   npolls, nresets>>

\* the commands the debounce timers have moved to the ready queue
MovedCount ==
    Cardinality(UNION {{<<k, i>> : i \in 1..Len(placed[k])} :
                           k \in DOMAIN placed})

\* TadoApiManager has no shutdown method: the call at the end of the
\* coordinator's shutdown raises AttributeError and leaves the manager's
\* timers and its worker as they are
ApiManagerShutdown(timers) == timers

\* shutdown: the reset timer and the resume timer are cancelled, then
\* api_manager.shutdown() is called
Shutdown ==
    /\ ~shutdown_done
    /\ shutdown_done' = TRUE
    /\ reset_poll_unsub' = "none"
    /\ resume_refresh_timer' = "none"
    /\ resume_timers' = CancelResumeTimer(resume_refresh_timer, resume_timers)
    /\ resume_hist' = resume_hist
    /\ pending_timers' = ApiManagerShutdown(pending_timers)
    /\ moved_before' = MovedCount
    /\ UNCHANGED <<action_queue, api_queue, wpc, batch, plan, coordVars,
                   sched, rpc, pause_window, reset_fires, reset_fetches,
                   pollVars, readVars, fetchVars, queueHist, batchHist,
                   quotaHist>>

LifeInit ==
    /\ action_queue = EmptyMap
    /\ pending_timers = EmptyMap
    /\ api_queue = <<>>
    /\ wpc = "get"
    /\ batch = <<>>
    /\ plan = <<>>
    /\ data = "none"
    /\ rl_limit = 0
    /\ rl_remaining = 0
    /\ srv_remaining = DailyLimit
    /\ hdr = -1
    /\ disable_when_throttled \in BOOLEAN
    /\ is_polling_enabled = TRUE
    /\ force_next_update = FALSE
    /\ poll = -1
    /\ wpoll = -1
    /\ zones_meta_loaded = FALSE
    /\ offset_invalidated = FALSE
    /\ away_invalidated = FALSE
    /\ sched = SchedIdle
    /\ reset_poll_unsub = "pending"
    /\ resume_refresh_timer = "none"
    /\ rpc = "idle"
    /\ pause_window \in BOOLEAN
    /\ shutdown_done = FALSE
    /\ reset_fires = 0
    /\ reset_fetches = 0
    /\ moved_before = 0
    /\ resume_timers = <<>>
    /\ resume_hist = NoResumeCalls
    /\ NoPollYet
    /\ NoZonesFollowed
    /\ NoDevicesFollowed
    /\ ncmds = 0
    /\ burst = EmptyMap
    /\ placed = EmptyMap
    /\ age = EmptyMap
    /\ spread = EmptyMap
    /\ sent = EmptyMap
    /\ blog = <<>>
    /\ bno = 0
    /\ failed_in = 0
    /\ issued = 0
    /\ npolls = 0
    /\ nresets = 0

LifeNext ==
    \/ ~shutdown_done /\ SetTimer(<<1>>, "ON", 21, 0, "-")
    \/ ~shutdown_done /\ SetZoneAutoWithRefresh(1)
    \/ ExecuteResumeRefresh
    \/ Timers
    \/ Worker
    \/ ScheduledPoll(MaxPolls)
    \/ OnResetPoll
    \/ \E r \in RefreshOutcomes : OnResetPollEnd(r)
    \/ Shutdown

LifeSpec == LifeInit /\ [][LifeNext]_vars

\* C12: when the reset timer fires, one remote fetch is started at once,
\* whatever the throttle and suspend state (also when the budget is
\* throttled and polling is disabled when throttled), and when the reset
\* poll has finished the timer is armed again for the following reset.
C12_ResetPollFetchesOnce ==
    ~shutdown_done =>
        /\ reset_fetches = reset_fires
        /\ (reset_fires > 0 /\ rpc = "idle") => reset_poll_unsub = "pending"

\* the budget throttled and polling disabled when throttled: the reset poll
\* has fetched all the same and the timer is armed again
C12_Witness ==
    /\ ~shutdown_done
    /\ disable_when_throttled
    /\ data = "ok"
    /\ reset_fires = 1
    /\ reset_fetches = 1
    /\ rpc = "idle"
    /\ reset_poll_unsub = "pending"
    /\ IsThrottled(rl_remaining)

\* C20: after the coordinator's shutdown no per-key debounce timer, no
\* daily reset timer and no resume-refresh timer remains pending, and no
\* command queued before the shutdown is moved to the ready queue
\* afterwards.
C20_ShutdownCancelsAll ==
    shutdown_done =>
        /\ pending_timers = EmptyMap
        /\ reset_poll_unsub # "pending"
        /\ resume_refresh_timer # "pending"
        /\ MovedCount = moved_before

\* a shutdown that found the reset timer and the resume timer pending and
\* no debounce timer running: nothing is left pending
C20_Witness ==
    /\ shutdown_done
    /\ reset_fires = 0
    /\ ncmds > 0
    /\ pending_timers = EmptyMap
    /\ reset_poll_unsub = "none"
    /\ resume_refresh_timer = "none"

\* the fetches (fetch_full_update) that are running: the scheduled poll's,
\* the worker's manual poll's and the reset poll's
FetchesInFlight ==
    (IF poll # -1 THEN 1 ELSE 0)
    + (IF wpc = "poll" THEN 1 ELSE 0)
    + (IF rpc = "refresh" THEN 1 ELSE 0)

\* C21: at most one full fetch is in flight at any time: a scheduled poll, a
\* manual poll or the reset poll that triggers a refresh while another
\* fetch is running starts no second fetch.
C21_OneFetchInFlight == FetchesInFlight <= 1

(***************************************************************************)
(* The read specification: one hot water zone is followed from the first   *)
(* refresh on. Its water heater entity writes a target temperature, a      *)
(* power state or the return to the schedule; the writes go through the    *)
(* debounce stage and the worker to the vendor, next to the scheduled      *)
(* poll, and the entity's properties are read in every state.              *)
(***************************************************************************)
\* TadoWaterHeater.async_set_temperature
WaterHeaterSetTemperature(z, temperature) ==
    /\ ncmds < MaxCmds
    /\ SetStage(SetMultipleZoneOverlays(Stage, <<z>>, 1, "ON", temperature,
                                        0, "timer"))
    /\ UNCHANGED pipeRest

\* async_set_hot_water_power
SetHotWaterPower(z, on) ==
    LET power == IF on THEN "ON" ELSE "OFF"
        d == [type |-> "HOT_WATER", power |-> power, temp |-> NoTemp,
              term |-> "MANUAL"]
    IN  /\ ncmds < MaxCmds
        /\ SetStage(QueueCommand(
               [Stage EXCEPT !.zs = PatchZoneLocal(@, z, d),
                             !.op = OptimisticSetZone(@, z, TRUE, power,
                                                      "-")],
               ZoneKey(z), "SET_OVERLAY", z, d, "-"))
        /\ UNCHANGED pipeRest

\* async_set_hot_water_off
SetHotWaterOff(z) ==
    LET d == [type |-> "HOT_WATER", power |-> "OFF", temp |-> NoTemp,
              term |-> "MANUAL"]
    IN  /\ ncmds < MaxCmds
        /\ SetStage(QueueCommand(
               [Stage EXCEPT !.zs = PatchZoneLocal(@, z, d),
                             !.op = OptimisticSetZone(@, z, TRUE, "-",
                                                      "off")],
               ZoneKey(z), "SET_OVERLAY", z, d, "-"))
        /\ UNCHANGED pipeRest

\* time passes while no debounce timer is pending
TickIdle ==
    /\ pending_timers = EmptyMap
    /\ \E z \in DOMAIN optimistic : optimistic[z].age <= OptimisticTTL
    /\ optimistic' = AgeEntries(optimistic)
    /\ UNCHANGED <<mgrVars, coordVars, sched, timerVars,
                   resumeVars, pollVars, zone_states,
                   srv_zone_states, fetchVars, queueHist, batchHist, quotaHist>>

\* TadoOptimisticMixin._resolve_state over _get_optimistic_value and
\* _get_actual_value: the optimistic power when there is one, the cached
\* power otherwise
ResolveState(z) ==
    IF GetZonePower(optimistic, z) # "-" THEN GetZonePower(optimistic, z)
    ELSE IF Has(zone_states, z) THEN zone_states[z].power
    ELSE "OFF"

\* TadoWaterHeater.hvac_mode
HvacMode(z) ==
    IF GetZoneOverlay(optimistic, z) = "auto" THEN "auto"
    ELSE IF ResolveState(z) = "ON" THEN "heat"
    ELSE "off"

\* TadoWaterHeater.target_temperature: the cached setting's temperature
TargetTemperature(z) ==
    IF Has(zone_states, z) THEN zone_states[z].temp ELSE NoTemp

ReadInit ==
    /\ action_queue = EmptyMap
    /\ pending_timers = EmptyMap
    /\ api_queue = <<>>
    /\ wpc = "get"
    /\ batch = <<>>
    /\ plan = <<>>
    /\ data = "ok"
    /\ rl_limit = DailyLimit
    /\ rl_remaining = DailyLimit
    /\ srv_remaining = DailyLimit
    /\ hdr = DailyLimit
    /\ disable_when_throttled = FALSE
    /\ is_polling_enabled = TRUE
    /\ force_next_update = FALSE
    /\ poll = -1
    /\ wpoll = -1
    /\ zones_meta_loaded = TRUE
    /\ offset_invalidated = FALSE
    /\ away_invalidated = FALSE
    /\ sched = SchedIdle
    /\ NoTimers
    /\ \E p \in {"ON", "OFF"} :
          /\ srv_zone_states = [z \in HotWaterZoneIds |->
                                   ZoneState(p, 21, FALSE)]
          /\ zone_states = srv_zone_states
    /\ optimistic = EmptyMap
    /\ NoDevicesFollowed
    /\ ncmds = 0
    /\ burst = EmptyMap
    /\ placed = EmptyMap
    /\ age = EmptyMap
    /\ spread = EmptyMap
    /\ sent = EmptyMap
    /\ blog = <<>>
    /\ bno = 0
    /\ failed_in = 0
    /\ issued = 0
    /\ npolls = 0
    /\ nresets = 0

ReadNext ==
    \/ \E z \in HotWaterZoneIds, t \in Temps : WaterHeaterSetTemperature(z, t)
    \/ \E z \in HotWaterZoneIds, on \in BOOLEAN : SetHotWaterPower(z, on)
    \/ \E z \in HotWaterZoneIds : SetHotWaterOff(z)
    \/ \E z \in HotWaterZoneIds : SetZoneAuto(z)
    \/ Timers
    \/ TickIdle
    \/ WorkerGet
    \/ WorkerDrain
    \/ \E ok \in BOOLEAN : WorkerCall(ok)
    \/ ScheduledPoll(MaxQuotaPolls)

ReadSpec == ReadInit /\ [][ReadNext]_vars

\* the SET_OVERLAY command of zone z that waits in the debounce stage
PendingOverlay(z) ==
    /\ Has(action_queue, ZoneKey(z))
    /\ action_queue[ZoneKey(z)].t = "SET_OVERLAY"

\* C22: while the overlay write of a zone has patched the cache and set the
\* optimistic entry and its command has not been dispatched, the entity's
\* reads return what was written, the power and the target temperature,
\* also when a poll's fetch has completed in between.
C22_PendingWriteReadBack ==
    \A z \in DOMAIN srv_zone_states :
        PendingOverlay(z) =>
            LET d == action_queue[ZoneKey(z)].data
            IN  /\ ResolveState(z) = d.power
                /\ d.temp # NoTemp => TargetTemperature(z) = d.temp

\* the operation mode an optimistic entry stands for, "-" when it says
\* nothing about the mode
EntryMode(e) ==
    IF ~e.overlay THEN "auto"
    ELSE IF e.mode \in {"heat", "off"} THEN e.mode
    ELSE IF e.power = "ON" THEN "heat"
    ELSE IF e.power = "OFF" THEN "off"
    ELSE "-"

\* every zone with an optimistic entry reads as the entry says
ReadsOptimistic ==
    \A z \in DOMAIN optimistic :
        EntryMode(optimistic[z]) # "-" =>
            HvacMode(z) = EntryMode(optimistic[z])

\* a step in which a fetch completes with every call answered
FetchSucceeds ==
    /\ poll # -1 \/ wpc = "poll"
    /\ data' = "ok"
    /\ srv_remaining' = srv_remaining
                        - FetchCalls(zones_meta_loaded, offset_invalidated,
                                     away_invalidated)
    /\ zone_states' = srv_zone_states

\* C23: after a write has set an optimistic value for a zone, every read of
\* the zone's operation mode returns the optimistic value, not the cached
\* one, for as long as the entry exists; and a fetch that reports the
\* written value has the entry removed by cleanup.
C23_OptimisticOverCached ==
    [][/\ ReadsOptimistic'
       /\ FetchSucceeds =>
             \A z \in DOMAIN optimistic :
                 EntryConfirmed(optimistic[z], zone_states'[z]) =>
                     ~Has(optimistic', z)]_vars

(***************************************************************************)
(* The fetch specification: the data manager's tracks from the first       *)
(* refresh on, for one device whose offset is followed. Manual polls of    *)
(* every scope go through the debounce stage and the worker, next to the   *)
(* scheduled poll, and the poll intervals of the slow track and of the     *)
(* offsets elapse.                                                         *)
(***************************************************************************)
FollowedDevices == {"d1"}
Scopes == {"all", "metadata", "offsets", "away"}

\* time passes: the poll interval of a track has elapsed since its last
\* fetch (the offsets have one when offset_poll_seconds is above 0)
IntervalElapses(t) ==
    /\ ~track_due[t]
    /\ track_due' = [track_due EXCEPT ![t] = TRUE]
    /\ UNCHANGED <<mgrVars, coordVars, sched, timerVars, resumeVars, pollVars,
                   readVars,
                   offsets_cache, srv_offsets, last_fetch, queueHist,
                   batchHist, quotaHist>>

FetchInit ==
    /\ action_queue = EmptyMap
    /\ pending_timers = EmptyMap
    /\ api_queue = <<>>
    /\ wpc = "get"
    /\ batch = <<>>
    /\ plan = <<>>
    /\ data = "ok"
    /\ rl_limit = DailyLimit
    /\ rl_remaining = DailyLimit
    /\ srv_remaining = DailyLimit
    /\ hdr = DailyLimit
    /\ disable_when_throttled = FALSE
    /\ is_polling_enabled = TRUE
    /\ force_next_update = FALSE
    /\ poll = -1
    /\ wpoll = -1
    /\ zones_meta_loaded = TRUE
    /\ offset_invalidated = FALSE
    /\ away_invalidated = FALSE
    /\ sched = SchedIdle
    /\ NoTimers
    /\ NoZonesFollowed
    /\ track_due = [t \in Tracks |-> FALSE]
    /\ offsets_cache = [d \in FollowedDevices |-> 0]
    /\ srv_offsets \in [FollowedDevices -> {0, 1}]
    /\ last_fetch = [ok |-> TRUE, tracks |-> {"slow", "fast"}]
    /\ ncmds = 0
    /\ burst = EmptyMap
    /\ placed = EmptyMap
    /\ age = EmptyMap
    /\ spread = EmptyMap
    /\ sent = EmptyMap
    /\ blog = <<>>
    /\ bno = 0
    /\ failed_in = 0
    /\ issued = 0
    /\ npolls = 0
    /\ nresets = 0

FetchNext ==
    \/ \E scope \in Scopes : ManualPoll(scope)
    \/ Timers
    \/ WorkerGet
    \/ WorkerDrain
    \/ \E r \in RefreshOutcomes : WorkerPollEnd(r)
    \/ ScheduledPoll(MaxPolls)
    \/ \E t \in Tracks : IntervalElapses(t)

FetchSpec == FetchInit /\ [][FetchNext]_vars

\* a step in which the fetch of a scheduled or a manual refresh ends
FetchEnds ==
    \/ poll # -1 /\ poll' = -1
    \/ wpc = "poll" /\ wpc' = "get"

\* C24: when the fetch fails with an error of the remote API, the refresh is
\* reported as failed and the cached read state (the refresh data, the zone
\* states, the offsets, the optimistic entries) is afterwards what it was
\* before the attempt.
C24_FailedFetchKeepsCache ==
    [][(FetchEnds /\ ~last_fetch'.ok) =>
          /\ data' = data
          /\ zone_states' = zone_states
          /\ optimistic' = optimistic
          /\ offsets_cache' = offsets_cache]_vars

\* C28: a fetch takes the fast track on every call, the slow track only
\* when the metadata cache is empty or the slow interval has elapsed, the
\* offsets only when they are invalidated or their interval has elapsed,
\* and the away configuration only when it is invalidated.
C28_TracksOnlyWhenDue ==
    [][FetchEnds =>
          LET T == last_fetch'.tracks
          IN  /\ last_fetch'.ok => "fast" \in T
              /\ "slow" \in T => ~zones_meta_loaded \/ track_due["slow"]
              /\ "offsets" \in T =>
                     offset_invalidated \/ track_due["offsets"]
              /\ "away" \in T => away_invalidated]_vars

\* a scheduled poll that found nothing due took the fast track alone, and
\* one that found the offsets interval elapsed took the offsets with it
C28_Witness ==
    /\ last_fetch.ok
    /\ last_fetch.tracks = {"fast", "offsets"}
    /\ npolls = 1
    /\ ncmds = 0

\* the scope the worker hands to invalidate_cache when its linger sleep
\* ends, "-" when the batch holds no manual poll
InvalidatedScope ==
    IF wpc = "linger" /\ data # "none"
    THEN Merge(batch \o api_queue).manual_poll
    ELSE "-"

IntervalWithLogicOff ==
    CalculateAutoQuotaInterval([sched EXCEPT !.reduced = FALSE],
                               rl_limit, rl_remaining,
                               disable_when_throttled)

\* C25: when the reduced-window logic is on and the start and end times
\* cannot be parsed, the interval computed is the one computed with the
\* reduced-window logic off.
C25_UnparsedWindowAsLogicOff ==
    (sched.pc = "done" /\ sched.reduced /\ ~sched.conf_ok) =>
        sched.result = IntervalWithLogicOff

(***************************************************************************)
(* The write specification: the overlay writes of the coordinator, with    *)
(* any power, with and without a temperature, below and above the          *)
(* ceilings, for a heating zone, a zone whose capabilities show no         *)
(* temperature control and the hot water zone. The debounce timers move    *)
(* the commands on to the worker's queue.                                  *)
(***************************************************************************)
\* requested temperatures: one every ceiling admits, one none admits
WriteTemps == {22, 66}
WriteZoneIds == ZoneIds \cup HotWaterZoneIds
\* zones whose entry of data.capabilities is missing or has no temperatures
NoTempCapabilityZoneIds == {2}
HasTemperatureCapability(z) == z \notin NoTempCapabilityZoneIds

\* async_set_zone_overlay, lines 1246-1255: the temperature that goes on to
\* _build_overlay_data
FinalTemp(z, power, temperature) ==
    IF temperature # NoTemp /\ power = "ON" /\ ~HasTemperatureCapability(z)
    THEN NoTemp
    ELSE temperature

\* async_set_zone_overlay
SetZoneOverlay(z, power, temperature) ==
    LET d == BuildOverlayData(z, power, FinalTemp(z, power, temperature),
                              0, "-")
    IN  /\ ncmds < MaxCmds
        /\ SetStage(QueueCommand(
               [Stage EXCEPT !.zs = PatchZoneLocal(@, z, d),
                             !.op = OptimisticSetZone(@, z, TRUE, power,
                                                      "-")],
               ZoneKey(z), "SET_OVERLAY", z, d, "-"))
        /\ UNCHANGED pipeRest

\* async_set_multiple_zone_overlays
AsyncSetMultipleZoneOverlays(zs, power, temperature) ==
    /\ ncmds + Len(zs) <= MaxCmds
    /\ SetStage(SetMultipleZoneOverlays(Stage, zs, 1, power, temperature,
                                        0, "-"))
    /\ UNCHANGED pipeRest

\* async_set_zone_heat
SetZoneHeat(z, temp) ==
    LET d == [type |-> ZoneType(z), power |-> "ON", temp |-> temp,
              term |-> "MANUAL"]
    IN  /\ ncmds < MaxCmds
        /\ SetStage(QueueCommand(
               [Stage EXCEPT !.zs = PatchZoneLocal(@, z, d),
                             !.op = OptimisticSetZone(@, z, TRUE, "-",
                                                      "-")],
               ZoneKey(z), "SET_OVERLAY", z, d, "-"))
        /\ UNCHANGED pipeRest

WriteNext ==
    \/ \E z \in WriteZoneIds, power \in {"ON", "OFF"},
          t \in WriteTemps \cup {NoTemp} : SetZoneOverlay(z, power, t)
    \/ \E z \in WriteZoneIds, power \in {"ON", "OFF"},
          t \in WriteTemps \cup {NoTemp} :
              AsyncSetMultipleZoneOverlays(<<z>>, power, t)
    \/ \E z \in WriteZoneIds, t \in WriteTemps : SetZoneHeat(z, t)
    \/ Timers

WriteSpec == ReadInit /\ [][WriteNext]_vars

\* the commands that wait in the debounce stage or in the worker's queue
Enqueued ==
    {action_queue[k] : k \in DOMAIN action_queue}
    \cup {api_queue[i] : i \in 1..Len(api_queue)}

\* the ceiling of a zone's type
TempCeiling(z) ==
    CASE ZoneType(z) = "HOT_WATER" -> TEMP_MAX_HOT_WATER
      [] ZoneType(z) = "AIR_CONDITIONING" -> TEMP_MAX_AC
      [] OTHER -> TEMP_MAX_HEATING

\* C26: every SET_OVERLAY command a coordinator write has enqueued carries
\* a temperature no greater than the ceiling of its zone's type.
C26_OverlayTemperatureCapped ==
    \A cmd \in Enqueued :
        (cmd.t = "SET_OVERLAY" /\ cmd.data.temp # NoTemp) =>
            cmd.data.temp <= TempCeiling(cmd.id)

\* C27: no enqueued overlay payload has a temperature with power OFF or
\* for a zone that lacks the temperature capability: a write that asks for
\* one goes through with the temperature dropped.
C27_TemperatureDropped ==
    \A cmd \in Enqueued :
        (cmd.t = "SET_OVERLAY" /\ cmd.data.temp # NoTemp) =>
            /\ cmd.data.power = "ON"
            /\ HasTemperatureCapability(cmd.id)

\* the conditions of lines 387-391 and 398 at the start of a poll cycle
\* that finds the local count remaining
ThrottleSuspends(remaining) ==
    /\ disable_when_throttled
    /\ IsThrottled(remaining)
    /\ ~force_next_update
    /\ data # "none"

\* C30: with disable_when_throttled set, the budget throttled, cached data
\* present and no forced update pending, a poll cycle makes no remote call
\* and leaves the cached data as it is, whether the update timer or a
\* manual poll started it; with no cached data yet, the cycle fetches
\* although the budget is throttled.
C30_ThrottledCycleSkips ==
    [][/\ (npolls' = npolls + 1 /\ ThrottleSuspends(rl_remaining)) =>
             /\ poll' = -1
             /\ issued' = issued
             /\ srv_remaining' = srv_remaining
             /\ data' = data
             /\ zone_states' = zone_states
             /\ last_fetch' = last_fetch
       /\ (wpc # "poll" /\ wpc' = "poll") => ~ThrottleSuspends(rl_remaining')
       /\ (/\ npolls' = npolls + 1
           /\ disable_when_throttled
           /\ IsThrottled(rl_remaining)
           /\ data = "none") => poll' # -1]_vars

\* the first cycle fetched although the budget counted as throttled, its
\* four calls left the budget at the threshold, and the second cycle of the
\* update timer came back without a call
C30_Witness ==
    /\ disable_when_throttled
    /\ npolls = 2
    /\ poll = -1
    /\ ncmds = 0
    /\ nresets = 0
    /\ data = "ok"
    /\ last_fetch.ok
    /\ IsThrottled(rl_remaining)
    /\ issued = FetchCalls(FALSE, FALSE, FALSE)

(***************************************************************************)
(* Properties of the worker's manual poll.                                 *)
(***************************************************************************)
\* the commands of the batch _process_batch is working on, or is about to
BatchCommands ==
    IF wpc = "linger" THEN batch \o api_queue ELSE batch
\* a step in which _process_batch gets to its end, or an error escapes it,
\* without a fetch having begun
BatchEndsUnfetched ==
    /\ wpc \in {"linger", "process"}
    /\ wpc' \in {"get", "sleep"}
\* a step in which the fetch of a batch's manual poll begins
ManualFetchBegins == wpc # "poll" /\ wpc' = "poll"

\* C31: a batch with a manual poll starts its fetch once, after the last
\* outbound call of the batch has returned or failed and with the caches
\* invalidated as the merged scope asks; a batch without a manual poll
\* starts none.
C31_ManualPollFetchesOnce ==
    [][/\ BatchEndsUnfetched => Merge(BatchCommands).manual_poll = "-"
       /\ ManualFetchBegins =>
             LET scope == Merge(BatchCommands).manual_poll
             IN  /\ scope # "-"
                 /\ plan' = <<>>
                 /\ scope \in {"all", "metadata"} => ~zones_meta_loaded'
                 /\ scope \in {"all", "offsets"} => offset_invalidated'
                 /\ scope \in {"all", "away"} => away_invalidated'
       /\ wpc = "poll" => (wpc' = "poll" \/ (wpc' = "get" /\ batch' = <<>>))
      ]_vars

(***************************************************************************)
(* Properties of the refresh after a resume.                               *)
(***************************************************************************)
ResumeRefreshKey == <<"refresh_after_resume", 0>>
\* a step in which the zone poll of the refresh after a resume is queued
ResumePollQueued ==
    /\ ncmds' = ncmds + 1
    /\ Has(action_queue', ResumeRefreshKey)
    /\ action_queue'[ResumeRefreshKey].n = ncmds'

\* C32: with the refresh after a resume on, at most one resume timer is
\* live; it is live exactly while async_set_zone_auto calls wait for their
\* refresh; and the calls of a burst, each made before the delay of the
\* previous one was over, get one zone-scoped manual poll between them,
\* queued when the full delay has passed since the last call.
C32_OneRefreshAfterLastResume ==
    /\ [](Len(resume_timers) <= 1)
    /\ [](~shutdown_done =>
             (resume_hist.calls > 0 <=> Len(resume_timers) = 1))
    /\ [][ResumePollQueued =>
             /\ resume_hist.calls >= 1
             /\ resume_hist.since = ResumeRefreshDelayTicks
             /\ action_queue'[ResumeRefreshKey].t = "MANUAL_POLL"
             /\ action_queue'[ResumeRefreshKey].val = "zone"
             /\ resume_hist'.calls = 0
             /\ resume_timers' = <<>>]_vars

\* two resumes of zone 1, the second one tick after the first, and then the
\* one zone poll of the two
C32_Witness ==
    /\ ncmds = 3
    /\ Has(burst, ZoneKey(1))
    /\ Len(burst[ZoneKey(1)]) = 2
    /\ \A i \in 1..2 : burst[ZoneKey(1)][i].t = "RESUME_SCHEDULE"
    /\ spread[ZoneKey(1)]
    /\ Has(burst, ResumeRefreshKey)
    /\ burst[ResumeRefreshKey][1].n = 3
    /\ resume_timers = <<>>
    /\ ~shutdown_done

(***************************************************************************)
(* The walk specification: the two forward walks of the scheduler, one     *)
(* loop iteration per step, from any clock (whole or half seconds before   *)
(* the reset, near it and a day away) and for both reduced windows.        *)
(***************************************************************************)
\* seconds from the clock (cut to whole seconds) to the next reset
SecondsToReset == {1, 44, 46, 901, 3601, 7200, 40000, 86400}
WalkInputs ==
    [pc : {"chunk", "pause"}, half : {0, 1},
     next_reset : {ResetOfDay + SECONDS_PER_DAY},
     now : {ResetOfDay + SECONDS_PER_DAY - d : d \in SecondsToReset},
     test : {0}, normal : {0}, reduced : {0},
     start : {w.start : w \in Windows}, end : {w.end : w \in Windows}]

WalkInit ==
    /\ sched \in {[c EXCEPT !.test = IF c.pc = "chunk" THEN c.now
                                      ELSE c.now + 60] :
                     c \in {c \in WalkInputs :
                               [start |-> c.start, end |-> c.end] \in Windows}}
    /\ action_queue = EmptyMap
    /\ pending_timers = EmptyMap
    /\ api_queue = <<>>
    /\ wpc = "get"
    /\ batch = <<>>
    /\ plan = <<>>
    /\ data = "none"
    /\ rl_limit = 0
    /\ rl_remaining = 0
    /\ srv_remaining = DailyLimit
    /\ hdr = -1
    /\ disable_when_throttled = FALSE
    /\ is_polling_enabled = TRUE
    /\ force_next_update = FALSE
    /\ poll = -1
    /\ wpoll = -1
    /\ zones_meta_loaded = FALSE
    /\ offset_invalidated = FALSE
    /\ away_invalidated = FALSE
    /\ ncmds = 0
    /\ burst = EmptyMap
    /\ placed = EmptyMap
    /\ age = EmptyMap
    /\ spread = EmptyMap
    /\ sent = EmptyMap
    /\ blog = <<>>
    /\ bno = 0
    /\ failed_in = 0
    /\ issued = 0
    /\ npolls = 0
    /\ nresets = 0
    /\ NoTimers
    /\ NoZonesFollowed
    /\ NoDevicesFollowed

walkRest == <<mgrVars, coordVars, timerVars, resumeVars, pollVars,
              readVars, fetchVars,
              queueHist, batchHist, quotaHist>>

\* one iteration of the while loop of _calculate_weighted_interval, or its
\* exit
ChunkStep ==
    /\ sched.pc = "chunk"
    /\ IF sched.test < sched.next_reset
       THEN LET chunk == Chunk(sched.test, sched.next_reset, sched.half)
                in_window == IsInReducedWindow(sched.test, sched)
            IN  sched' = [sched EXCEPT
                    !.test = @ + chunk,
                    !.reduced = IF in_window THEN @ + chunk ELSE @,
                    !.normal = IF in_window THEN @ ELSE @ + chunk]
       ELSE sched' = [sched EXCEPT !.pc = "done"]
    /\ UNCHANGED walkRest

\* one iteration of the pause window search of
\* _calculate_auto_quota_interval, or its exit
PauseStep ==
    /\ sched.pc = "pause"
    /\ IF /\ IsInReducedWindow(sched.test, sched)
          /\ sched.test < sched.next_reset
       THEN sched' = [sched EXCEPT !.test = @ + 15 * 60]
       ELSE sched' = [sched EXCEPT !.pc = "done"]
    /\ UNCHANGED walkRest

WalkNext == ChunkStep \/ PauseStep

\* a loop that can go on does go on
WalkSpec == WalkInit /\ [][WalkNext]_vars /\ WF_vars(WalkNext)

\* C33: both walks come to their end from every clock and for every window;
\* a step of the chunk walk moves the probe on by at least
\* MIN_AUTO_QUOTA_INTERVAL_S and only while it is short of the next reset,
\* and a step of the pause search by fifteen minutes and only while the
\* probe is inside the window and short of the next reset.
C33_WalksTerminate ==
    /\ <>(sched.pc = "done")
    /\ [][(sched'.pc = "chunk" /\ sched'.test # sched.test) =>
             /\ sched'.test - sched.test >= MIN_AUTO_QUOTA_INTERVAL_S
             /\ sched.test < sched.next_reset]_vars
    /\ [][(sched'.pc = "pause" /\ sched'.test # sched.test) =>
             /\ sched'.test - sched.test = 15 * 60
             /\ IsInReducedWindow(sched.test, sched)
             /\ sched.test < sched.next_reset]_vars
    /\ [][(sched.pc = "chunk" /\ sched'.pc = "done") =>
             sched.test >= sched.next_reset]_vars

\* the chunk walk has ended from half a second before the reset, where the
\* seconds left are cut to zero and the floor alone moves the probe on
C33_Witness ==
    /\ sched.pc = "done"
    /\ sched.half = 1
    /\ sched.next_reset - sched.now = 1
    /\ sched.normal + sched.reduced = MIN_AUTO_QUOTA_INTERVAL_S
    /\ sched.test = sched.now + MIN_AUTO_QUOTA_INTERVAL_S

(***************************************************************************)
(* Properties of the worker loop.                                          *)
(***************************************************************************)
\* a step in which the worker hands a batch to _process_batch
BatchHandedOver == bno' = bno + 1

\* C34: a batch handed to _process_batch holds the command the worker has
\* just taken and those it drains from the ready queue, and no command of
\* an earlier batch: every command is handed over in one batch only, also
\* after an error has escaped _process_batch.
C34_EachCommandInOneBatch ==
    [][BatchHandedOver => Len(batch) = 1]_vars

\* The quota specification with a fair loop: a timer that is due fires, the
\* clock goes on, and the worker task gets its turn whenever it can go on
\* (an awaited call returns or raises, a sleep ends).
QuotaLiveSpec ==
    QuotaInit /\ [][QuotaNext]_vars /\ WF_vars(Timers) /\ WF_vars(Worker)

\* command number n waits in the pending map, in the ready queue or, taken
\* by the worker, for the end of the linger sleep
Waits(n) ==
    \/ \E k \in DOMAIN action_queue : action_queue[k].n = n
    \/ \E i \in 1..Len(api_queue) : api_queue[i].n = n
    \/ wpc = "linger" /\ \E i \in 1..Len(batch) : batch[i].n = n

\* C35: under a fair loop no command waits for ever: each one is replaced
\* in the pending map by a later command for its key or handed to
\* _process_batch in a batch, whatever errors earlier batches raised.
C35_EveryCommandDispatched ==
    \A n \in 1..MaxCmds : Waits(n) ~> ~Waits(n)

\* the first batch raised before the first refresh, and the command queued
\* after it has been handed over in a second batch all the same
C35_Witness ==
    /\ bno = 2
    /\ ncmds = 2
    /\ npolls = 0
    /\ wpc = "sleep"
    /\ \A n \in 1..2 : ~Waits(n)

\* a step in which _process_batch reaches its tail (line 158 on) with a
\* manual poll among the merged commands while refresh data exists
ManualPollProcessed ==
    /\ wpc \in {"linger", "process"}
    /\ wpc' \notin {"linger", "process"}
    /\ data # "none"
    /\ Merge(BatchCommands).manual_poll # "-"

\* C36: a manual poll whose batch is processed starts a remote fetch, also
\* while the throttle suspension, the polling switch or a 0-interval
\* reduced window keeps the scheduled polls from fetching.
C36_ManualPollAlwaysFetches ==
    [][ManualPollProcessed => (wpc' = "poll" /\ wpoll' # -1)]_vars

(***************************************************************************)
(* The switch specification: the lifecycle configuration with the polling  *)
(* switch and the reduced polling logic switch, scheduled, manual and      *)
(* reset polls and the vendor's daily reset.                               *)
(***************************************************************************)
\* _async_update_data, lines 369-402, entered with the polling switch on:
\* the cycle returns the cached data without fetching
SkipsWhileEnabled(remaining, force) ==
    \/ pause_window /\ data # "none"
    \/ /\ disable_when_throttled
       /\ IsThrottled(remaining)
       /\ ~force
       /\ data # "none"

\* async_set_polling_active up to its await. Switched off, the interval is
\* recalculated; switched on, the force flag is set and async_refresh
\* enters _async_update_data, which returns the cached data or starts the
\* fetch.
SetPollingActive(enabled) ==
    /\ spoll = -1
    /\ is_polling_enabled' = enabled
    /\ IF ~enabled
       THEN /\ update_interval' =
                  UpdateIntervalLocal(FALSE, pause_window, rl_limit,
                                      rl_remaining)
            /\ UNCHANGED <<force_next_update, spoll, npolls>>
       ELSE /\ npolls < MaxQuotaPolls
            /\ npolls' = npolls + 1
            /\ IF SkipsWhileEnabled(rl_remaining, TRUE)
               THEN /\ force_next_update' = TRUE
                    /\ update_interval' =
                          UpdateIntervalLocal(TRUE, pause_window, rl_limit,
                                              rl_remaining)
                    /\ UNCHANGED spoll
               ELSE /\ force_next_update' = FALSE
                    /\ spoll' = rl_remaining
                    /\ UNCHANGED update_interval
    /\ UNCHANGED <<mgrVars, data, rl_limit, rl_remaining, srv_remaining, hdr,
                   disable_when_throttled, poll, wpoll, zones_meta_loaded,
                   offset_invalidated, away_invalidated, sched, timerVars,
                   resumeVars, last_poll_cost, rpoll, readVars, fetchVars,
                   queueHist, batchHist, issued, nresets>>

\* the fetch of the switch's refresh returns or raises
SetPollingActiveEnd(r) ==
    /\ spoll # -1
    /\ RefreshEnd(r)
    /\ AfterFetch(r, spoll)
    /\ spoll' = -1
    /\ UNCHANGED <<mgrVars, disable_when_throttled, is_polling_enabled,
                   force_next_update, poll, wpoll, rpoll, sched, timerVars,
                   resumeVars, srv_zone_states, srv_offsets, queueHist,
                   batchHist, npolls, nresets>>

\* async_set_reduced_polling_logic, with the clock inside the 0-interval
\* window: the logic is switched and the interval recalculated
SetReducedPollingLogic(enabled) ==
    /\ pause_window # enabled
    /\ pause_window' = enabled
    /\ update_interval' =
          UpdateIntervalLocal(is_polling_enabled, enabled, rl_limit,
                              rl_remaining)
    /\ UNCHANGED <<mgrVars, coordVars, sched, reset_poll_unsub,
                   resume_refresh_timer, rpc, shutdown_done, reset_fires,
                   reset_fetches, moved_before, resumeVars, last_poll_cost,
                   spoll, rpoll, readVars, fetchVars, queueHist, batchHist,
                   quotaHist>>

SwitchNext ==
    \/ \E e \in BOOLEAN : SetPollingActive(e)
    \/ \E r \in RefreshOutcomes : SetPollingActiveEnd(r)
    \/ \E e \in BOOLEAN : SetReducedPollingLogic(e)
    \/ ManualPoll("all")
    \/ Timers
    \/ WorkerGet
    \/ WorkerDrain
    \/ WorkerWake
    \/ \E r \in RefreshOutcomes : WorkerPollEnd(r)
    \/ ScheduledPoll(MaxQuotaPolls)
    \/ OnResetPoll
    \/ \E r \in RefreshOutcomes : OnResetPollEnd(r)
    \/ DailyReset

\* polling is disabled when throttled, the reduced polling logic starts off
SwitchInit == LifeInit /\ disable_when_throttled /\ ~pause_window

SwitchSpec == SwitchInit /\ [][SwitchNext]_vars

\* a scheduled refresh starts its fetch
ScheduledFetchBegins == poll = -1 /\ poll' # -1

\* no scheduled poll fetches through the throttle suspension
ScheduledPollKeepsSuspension ==
    [][(ScheduledFetchBegins /\ data # "none" /\ disable_when_throttled)
          => ~IsThrottled(rl_remaining)]_vars

\* C37: the force flag is set only from a forcing trigger (reset poll,
\* switching polling on) to the refresh that trigger starts: when that
\* refresh has returned the flag is down, and so no later scheduled poll
\* fetches through the throttle suspension.
C37_ForceFlagOnlyForItsRefresh ==
    /\ [](~force_next_update)
    /\ ScheduledPollKeepsSuspension

\* C38: while the polling switch is off the update interval is None (no
\* periodic poll is scheduled), whatever polls, manual polls, reset polls
\* and switches of the reduced polling logic have run since.
C38_NoIntervalWhileSwitchedOff ==
    ~is_polling_enabled => update_interval = NoInterval

\* C38 where a refresh has delivered data before: no step sets an update
\* interval and leaves the switch off
IntervalStaysOffWithData ==
    [][(data # "none" /\ ~is_polling_enabled' /\ update_interval = NoInterval)
          => update_interval' = NoInterval]_vars

(***************************************************************************)
(* Properties of the poll cost.                                            *)
(***************************************************************************)
\* the remote calls of the fetch that is in flight
OwnFetchCalls ==
    LET T == FetchTracks
    IN  FetchCalls("slow" \notin T, "offsets" \in T, "away" \in T)

\* a scheduled poll returns with fresh data, after a refresh that has
\* synchronised the rate limit before
ScheduledPollSucceeds ==
    /\ poll # -1
    /\ poll' = -1
    /\ last_fetch'.ok
    /\ data # "none"

\* C39: after a successful poll last_poll_cost is positive and is the
\* number of calls of that poll's own fetch, also when the worker has
\* dispatched a batch or the vendor has reset the quota while the fetch was
\* in flight.
C39_PollCostIsOwnCost ==
    [][ScheduledPollSucceeds => last_poll_cost' = OwnFetchCalls]_vars

(***************************************************************************)
(* Properties of the overlay payloads.                                     *)
(***************************************************************************)
\* setting.get("mode") of a payload: _build_overlay_data and the payloads
\* built by hand for a heating or hot water zone have no mode
NoMode == "-"
PayloadMode(d) == NoMode

\* validate_overlay_payload: the payload is accepted for the zone type
ValidateOverlayPayload(power, temperature, mode, zone_type) ==
    /\ zone_type = "HOT_WATER" => ~(power = "ON" /\ temperature = NoTemp)
    /\ zone_type = "HEATING" => ~(power = "ON" /\ temperature = NoTemp)
    /\ zone_type = "AIR_CONDITIONING" =>
           (power = "ON" => (temperature # NoTemp /\ mode # NoMode))

\* C40: every overlay payload a coordinator write has enqueued as a
\* SET_OVERLAY command is accepted by validate_overlay_payload for the type
\* of its zone: power ON comes with a temperature (and, for an air
\* conditioning zone, with a mode).
C40_EnqueuedPayloadsValid ==
    \A cmd \in Enqueued :
        cmd.t = "SET_OVERLAY" =>
            ValidateOverlayPayload(cmd.data.power, cmd.data.temp,
                                   PayloadMode(cmd.data), ZoneType(cmd.id))

\* C40 for the writes that were asked to set a temperature: the zone shows
\* no temperature capability and the payload goes out without one
PayloadValidWithCapabilityMissing ==
    \A cmd \in Enqueued :
        (cmd.t = "SET_OVERLAY" /\ ~HasTemperatureCapability(cmd.id)) =>
            ValidateOverlayPayload(cmd.data.power, cmd.data.temp,
                                   PayloadMode(cmd.data), ZoneType(cmd.id))

====
